---- MODULE Spec2Model ----
(***************************************************************************)
(* A model of the TERMINUS tool-augmented conversation clients and of the  *)
(* terminal tool server.                                                   *)
(*                                                                         *)
(*   client/client.py            ClaudeMCPClient.process_query             *)
(*   client/mcp_slack_client.py  ChatDatabase, SlackMCPClient              *)
(*   src/terminal_mcp/server.py  run_command, run_terminal_command         *)
(*                                                                         *)
(* Several specifications share the module:                                *)
(*   Spec          the orchestration loop (both client variants)           *)
(*   SpecLive      Spec, with every begun invocation taking its steps      *)
(*   SpecHistory   the loop over a store that earlier invocations filled   *)
(*   SpecHandler   handle_mention / handle_message around the loop         *)
(*   SpecPair      two invocations of the loop, interleaved                *)
(*   SpecTerminal  the terminal tool server                                *)
(*   SpecShell     the terminal tool server on each platform               *)
(*   SpecSession   ChatDatabase.create_session_id on pairs of inputs       *)
(*                                                                         *)
(* Texts.  A text that the completion service writes (a reply's text       *)
(* block, a final answer) is a sequence of one-character strings, so that  *)
(* join and strip are computed.  A text that comes from the tool server or *)
(* from an exception is the pair (origin, length): a slice keeps the       *)
(* origin and shortens the length, which is all the loop does to it.       *)
(* Where both kinds meet (a returned string) the first kind is written as  *)
(* the pair (its characters, their number).                                *)
(***************************************************************************)
EXTENDS Integers, Sequences, FiniteSets, TLC

VARIABLES
    \* ---- orchestrator: one entry per task instance ----
    pc,                  \* position of the task in process_query / process_with_context
    variant,             \* "query" (client.py) or "context" (mcp_slack_client.py)
    session_id,          \* argument of process_with_context
    query,               \* argument: the user's text
    messages,            \* local `messages`
    catalog,             \* local `resp.tools` (the descriptors list_tools returned)
    tools,               \* local `tools` (the offers built from list_tools)
    turn,                \* loop variable `turn`
    assistant_content,   \* local `assistant_content` (response.content)
    tool_uses,           \* local `tool_uses`
    tu_index,            \* position of the `for tu in tool_uses` loop (1-based)
    tool_results_blocks, \* local `tool_results_blocks`
    result,              \* how the invocation left: returned string or raised fault
    \* ---- history of the task (observations, never read by the code) ----
    calls,               \* completion-service calls made
    offered,             \* the `tools` argument of the latest completion-service call
    dispatched,          \* correlation ids of the tool-server calls made, in order
    replies,             \* reply contents received from the completion service
    outcomes,            \* raw outcomes received from the tool server's call_tool
    last_step,           \* what the most recent step of the task did
    persisted,           \* roles of the messages the invocation wrote to the store
    \* ---- SessionStore (ChatDatabase) ----
    db_messages,         \* table `messages`, in insertion order
    db_tool_calls,       \* table `tool_calls`, in insertion order
    db_sessions,         \* table `chat_sessions`, in rowid order
    now,                 \* CURRENT_TIMESTAMP of the store, in whole seconds
    \* ---- terminal tool server ----
    current_directory,   \* module-level `current_directory`
    dirs,                \* directories that exist on the host right now
    term,                \* one run_terminal_command invocation per client
    system,              \* platform.system() of the host the server runs on
    last_cd,             \* per client, the new_cwd of its latest successful cd (observation)
    \* ---- create_session_id ----
    sid_in,              \* a pair of argument triples
    sid_out,             \* the pair of component strings / digests computed
    \* ---- Slack event handlers (handle_mention, handle_message) ----
    hpc,                 \* position of the handler
    event,               \* the inbound event being handled
    event_text,          \* local `text`
    posted,              \* texts posted to the user with chat_postMessage, in order
    hexit,               \* how the handler left: "return" or "raise"
    hfaults              \* which collaborators of the handler faulted (observation)

orchVars == <<pc, variant, session_id, query, messages, catalog, tools, turn,
              assistant_content, tool_uses, tu_index, tool_results_blocks,
              result, calls, offered, dispatched, replies, outcomes,
              last_step, persisted>>
storeVars == <<db_messages, db_tool_calls, db_sessions, now>>
termVars == <<current_directory, dirs, term, last_cd, system>>
sidVars == <<sid_in, sid_out>>
slackVars == <<hpc, event, event_text, posted, hexit, hfaults>>
vars == <<orchVars, storeVars, termVars, sidVars, slackVars>>

-----------------------------------------------------------------------------
(* Bounds of the model *)

\* Turn budgets.  The source fixes MAX_TURNS = 10 (process_with_context) and
\* MAX_TURNS = 100 (process_query); the loop treats the budget uniformly, and
\* the model runs it with small budgets that keep the two variants different.
MaxTurnsContext == 2
MaxTurnsQuery == 3
\* The completion service and the tool server answer with every modelled shape
\* during the first MaxRichTurns turns of an invocation; from then on with the
\* plain shapes only (LeanReplies, LeanRawResults).  The interleaved tasks of
\* SpecPair, which are no members of Procs, get the plain shapes throughout.
MaxRichTurns == 1
\* Earlier invocations whose messages the store holds at the start (SpecHistory)
MaxStored == 3

\* The size cap of a tool-result text: the slice [:10000].
CAP == 10000

Procs == {"p1"}
Sessions == {"s1", "s2"}
None == "None"

Min(a, b) == IF a <= b THEN a ELSE b

-----------------------------------------------------------------------------
(* Texts written by the completion service: sequences of characters *)

Whitespace == {" ", "\n"}

RECURSIVE LStrip(_)
LStrip(s) == IF s # <<>> /\ Head(s) \in Whitespace THEN LStrip(Tail(s)) ELSE s

RECURSIVE RStrip(_)
RStrip(s) ==
    IF s # <<>> /\ s[Len(s)] \in Whitespace
    THEN RStrip(SubSeq(s, 1, Len(s) - 1))
    ELSE s

\* str.strip()
Strip(s) == RStrip(LStrip(s))

\* sep.join(parts)
RECURSIVE Join(_, _)
Join(sep, parts) ==
    IF parts = <<>> THEN <<>>
    ELSE IF Len(parts) = 1 THEN parts[1]
    ELSE parts[1] \o sep \o Join(sep, Tail(parts))

-----------------------------------------------------------------------------
(* Texts from the tool server and from exceptions: (origin, length) *)

\* src: a sequence of strings naming where the characters come from
RawText(src, len) == [src |-> src, len |-> len]

\* A text of the completion service as such a pair
TextOf(chars) == RawText(chars, Len(chars))

\* s[:n]
Slice(t, n) == [t EXCEPT !.len = Min(t.len, n)]

\* Tool names, with the length of the name
NameLen(name) == CASE name = "run_terminal_command" -> 20
                   [] name = "read_file" -> 9
                   [] OTHER -> 1

\* f"Error executing tool '{tool_name}': {e}"
ErrorText(tool_name, e) ==
    RawText(<<"Error executing tool '", tool_name, "': ">> \o e.src,
            22 + NameLen(tool_name) + 3 + e.len)

\* str(e) for an exception e
StrOfExc(e) == RawText(e.src, e.len)

\* Faults, each with the text str(e) gives
DbError == RawText(<<"sqlite3.OperationalError">>, 18)
ApiError == RawText(<<"anthropic.APIError">>, 16)
McpError == RawText(<<"mcp.McpError">>, 12)
LongMcpError == RawText(<<"mcp.McpError", "long">>, CAP)
NoExc == RawText(<<>>, 0)

-----------------------------------------------------------------------------
(* Content blocks and what the collaborators may answer *)

TextBlock(t) == [type |-> "text", text |-> t]
ToolUseBlock(id, name, input) ==
    [type |-> "tool_use", id |-> id, name |-> name, input |-> input]
\* A block of a type the loop does not convert (for instance "thinking").
OtherBlock == [type |-> "thinking"]

\* Correlation ids are minted by the completion service: a fresh one per block.
MintId(p, t, k) == <<p, t, k>>

\* Reply contents the completion service may return on turn t of task p.
FinalReplies ==
    { <<>>,
      << TextBlock(<<" ", "a">>) >>,
      << TextBlock(<<"a">>), TextBlock(<<"b", "\n">>) >>,
      << OtherBlock, TextBlock(<<"a">>) >> }

LeanReplies(p, t) ==
    { << TextBlock(<<"a">>) >>,
      << ToolUseBlock(MintId(p, t, 1), "run_terminal_command", "i1") >> }

RichReplies(p, t) ==
    FinalReplies \cup
    { << ToolUseBlock(MintId(p, t, 1), "run_terminal_command", "i1") >>,
      << TextBlock(<<"c">>),
         ToolUseBlock(MintId(p, t, 1), "run_terminal_command", "i1"),
         ToolUseBlock(MintId(p, t, 2), "read_file", "i2") >> }

Replies(p, t) ==
    IF p \in Procs /\ t < MaxRichTurns THEN RichReplies(p, t) ELSE LeanReplies(p, t)

\* What session.call_tool may produce: a list of parts (the first part with or
\* without a text attribute), another value, or a raised fault.  has_text and
\* text_len describe the first part's text attribute, ser_len is the length of
\* json.dumps(result) / str(result), exc the fault raised.
RawList(nparts, has_text, text_len, ser_len) ==
    [kind |-> "list", nparts |-> nparts, has_text |-> has_text,
     text_len |-> text_len, ser_len |-> ser_len, exc |-> NoExc]
RawOther(ser_len) ==
    [kind |-> "other", nparts |-> 0, has_text |-> FALSE, text_len |-> 0,
     ser_len |-> ser_len, exc |-> NoExc]
RawRaise(e) ==
    [kind |-> "raise", nparts |-> 0, has_text |-> FALSE, text_len |-> 0,
     ser_len |-> 0, exc |-> e]

LeanRawResults ==
    { RawList(1, TRUE, 5, 40), RawRaise(McpError) }

RichRawResults ==
    LeanRawResults \cup
    { RawList(1, TRUE, CAP + 1, CAP + 40),  \* first part's text longer than the cap
      RawList(1, TRUE, 0, 30),              \* first part's text is ""
      RawList(1, FALSE, 0, CAP + 5),        \* first part has no text attribute
      RawList(0, FALSE, 0, 2),              \* []
      RawOther(CAP + 7),                    \* a CallToolResult object, long repr
      RawRaise(LongMcpError) }

RawResults(p, t) ==
    IF p \in Procs /\ t < MaxRichTurns THEN RichRawResults ELSE LeanRawResults

\* What list_tools may return: descriptors (name, description, inputSchema).
\* NoSchema stands for an inputSchema of None, NoDescription for a description
\* of None.
Schema(properties) ==
    [type |-> "object", properties |-> properties, additionalProperties |-> FALSE]
NoSchema == [type |-> "None", properties |-> "", additionalProperties |-> FALSE]
\* An inputSchema of {}: a schema with no key
EmptySchema == [type |-> "", properties |-> "", additionalProperties |-> FALSE]
NoDescription == "None"
Descriptor(name, description, schema) ==
    [name |-> name, description |-> description, inputSchema |-> schema]
Catalogs ==
    { << Descriptor("run_terminal_command", "d", Schema("command")) >>,
      << Descriptor("run_terminal_command", "d", Schema("command")),
         Descriptor("read_file", NoDescription, NoSchema) >>,
      << Descriptor("read_file", "", EmptySchema),
         Descriptor("run_terminal_command", "d", Schema("command")) >> }

-----------------------------------------------------------------------------
(* Pure parts of the two clients *)

PermissiveSchema ==
    [type |-> "object", properties |-> "{}", additionalProperties |-> TRUE]

\* x or default with only None taken as false
OrNoneOnly(x, none, empty, default) == IF x = none THEN default ELSE x

\* x or default, for a string or a dict x: the default when x is None (none)
\* and when x is empty ("" and {} are false)
Or(x, none, empty, default) == IF x = none \/ x = empty THEN default ELSE x

\* The offers of whichever task built its offers already, when there is one
AnthropicToolsCached(mcp_tools) ==
    LET built == { q \in DOMAIN tools : tools[q] # <<>> }
    IN IF built # {} THEN tools[CHOOSE q \in built : TRUE]
       ELSE [i \in 1..Len(mcp_tools) |->
               [name |-> mcp_tools[i].name,
                description |-> Or(mcp_tools[i].description, NoDescription, "", ""),
                input_schema |-> Or(mcp_tools[i].inputSchema, NoSchema, EmptySchema,
                                    PermissiveSchema)]]

\* _anthropic_tools_from_mcp
AnthropicToolsFromMcp(mcp_tools) ==
    [i \in 1..Len(mcp_tools) |->
        [name |-> mcp_tools[i].name,
         description |-> Or(mcp_tools[i].description, NoDescription, "", ""),
         input_schema |-> Or(mcp_tools[i].inputSchema, NoSchema, EmptySchema,
                             PermissiveSchema)]]

IsToolUse(b) == b.type = "tool_use"
IsText(b) == b.type = "text"
IsConverted(b) == b.type \in {"text", "tool_use"}

\* The tool-use blocks taken last first
ToolUsesOfLastFirst(content) ==
    LET uses == SelectSeq(content, IsToolUse)
    IN [i \in 1..Len(uses) |-> uses[Len(uses) + 1 - i]]

\* tool_uses = [b for b in assistant_content if ... b.type == "tool_use"]
ToolUsesOf(content) == SelectSeq(content, IsToolUse)

\* assistant_content_dicts: text and tool_use blocks are copied field by
\* field, a block of any other type is skipped.
AssistantContentDicts(content) == SelectSeq(content, IsConverted)

AssistantMessage(content) ==
    [role |-> "assistant", content |-> AssistantContentDicts(content)]

UserTextMessage(text) ==
    [role |-> "user", content |-> << TextBlock(text) >>]

\* result_text of a tool-server call that returned
NormaliseResult(raw) ==
    IF raw.kind = "list" /\ raw.nparts > 0
    THEN IF raw.has_text /\ raw.text_len > 0
         THEN RawText(<<"part.text">>, raw.text_len)
         ELSE Slice(RawText(<<"json.dumps">>, raw.ser_len), CAP)
    ELSE Slice(RawText(<<"str">>, raw.ser_len), CAP)

\* ToolResultBlock with a stale tool_use_id: every block of a turn carries
\* the id of the turn's first tool-use block
ToolResultBlockStaleId(tu, result_text) ==
    [type |-> "tool_result", tool_use_id |-> MintId(tu.id[1], tu.id[2], 1),
     content |-> << [type |-> "text", text |-> result_text] >>]

ToolResultBlock(tu, result_text) ==
    [type |-> "tool_result", tool_use_id |-> tu.id,
     content |-> << [type |-> "text", text |-> result_text] >>]

ToolResultsMessage(blocks) == [role |-> "user", content |-> blocks]

NoResponse(v) ==
    IF v = "context"
    THEN <<"(", "N", "o", " ", "r", "e", "s", "p", "o", "n", "s", "e", ")">>
    ELSE <<"(", "N", "o", " ", "t", "e", "x", "t", " ", "r", "e", "t", "u",
           "r", "n", "e", "d", ".", ")">>

TextsOf(content) ==
    LET tb == SelectSeq(content, IsText) IN [i \in 1..Len(tb) |-> tb[i].text]

\* FinalText without the strip()
FinalTextUntrimmed(v, content) ==
    IF TextsOf(content) # <<>>
    THEN Join(<<"\n">>, TextsOf(content))
    ELSE NoResponse(v)

\* final_text
FinalText(v, content) ==
    IF TextsOf(content) # <<>>
    THEN Strip(Join(<<"\n">>, TextsOf(content)))
    ELSE NoResponse(v)

\* A loop that runs one more turn than MAX_TURNS
MaxTurnsAndOne(v) == (IF v = "context" THEN MaxTurnsContext ELSE MaxTurnsQuery) + 1

MAX_TURNS(v) == IF v = "context" THEN MaxTurnsContext ELSE MaxTurnsQuery

\* The ways an invocation leaves
ReturnFinal(text) == [exit |-> "return", kind |-> "final", text |-> TextOf(text)]
\* f" Error: {str(e)}" / f"Error calling Claude: {e}"
ReturnError(v, e) ==
    [exit |-> "return", kind |-> "error",
     text |-> RawText(<<IF v = "context" THEN " Error: "
                        ELSE "Error calling Claude: ">> \o e.src,
                      (IF v = "context" THEN 8 ELSE 22) + e.len)]
ReturnExhausted ==
    [exit |-> "return", kind |-> "exhausted",
     text |-> RawText(<<"Conversation exceeded maximum turns.">>, 36)]
Raised(e) == [exit |-> "raise", kind |-> "exception", text |-> StrOfExc(e)]

-----------------------------------------------------------------------------
(* SessionStore: ChatDatabase *)

\* SaveMessage with the INSERT never committed
SaveMessageUncommitted(db, sid, role, content) == db

\* save_message: INSERT INTO messages
MessageRow(sid, role, content, at) ==
    [session_id |-> sid, role |-> role, content |-> content, created_at |-> at]

SaveMessage(db, sid, role, content) ==
    Append(db, MessageRow(sid, role, content, now))

ToolCallRow(sid, tool_name, input_params, output, status) ==
    [session_id |-> sid, tool_name |-> tool_name, input_params |-> input_params,
     output |-> output, status |-> status]

\* The WHERE clause left out: every row is taken
IsOfAnySession(sid, row) == TRUE

\* WHERE session_id = ?
IsOfSession(sid, row) == row.session_id = sid

RECURSIVE RowsOfSession(_, _)
RowsOfSession(db, sid) ==
    IF db = <<>> THEN <<>>
    ELSE (IF IsOfSession(sid, Head(db)) THEN <<Head(db)>> ELSE <<>>)
         \o RowsOfSession(Tail(db), sid)

\* ORDER BY created_at DESC LIMIT k over rows: every order in which the query
\* may deliver them.  created_at has a resolution of one second and the
\* query names no second key, so rows of the same second come in any order.
RECURSIVE DescLimit(_, _, _)
DescLimit(rows, remaining, k) ==
    IF k = 0 \/ remaining = {} THEN { <<>> }
    ELSE LET newest == { i \in remaining :
                           \A j \in remaining : rows[j].created_at <= rows[i].created_at }
         IN UNION { { <<i>> \o rest : rest \in DescLimit(rows, remaining \ {i}, k - 1) } :
                    i \in newest }

\* reversed(rows)
Reversed(seq) == [i \in 1..Len(seq) |-> seq[Len(seq) + 1 - i]]

\* get_session_history: the lists it may return, each holding the `limit`
\* most recent rows of the session with the query's last row first
GetSessionHistory(db, sid, limit) ==
    LET rows == RowsOfSession(db, sid)
    IN { [i \in 1..Len(sel) |->
            [role |-> rows[Reversed(sel)[i]].role,
             content |-> rows[Reversed(sel)[i]].content,
             timestamp |-> rows[Reversed(sel)[i]].created_at]] :
         sel \in DescLimit(rows, 1..Len(rows), limit) }

SessionRow(sid, channel_id, user_id, thread_ts, at) ==
    [session_id |-> sid, channel_id |-> channel_id, user_id |-> user_id,
     thread_ts |-> thread_ts, created_at |-> at, updated_at |-> at]

\* upsert_session as a plain INSERT, whatever rows the table holds
InsertSession(db, sid, channel_id, user_id, thread_ts) ==
    Append(db, SessionRow(sid, channel_id, user_id, thread_ts, now))

\* upsert_session: INSERT OR REPLACE on the primary key session_id removes
\* the row of that id, if there is one, and inserts the new row; created_at
\* is not among the columns given and takes its default.
UpsertSession(db, sid, channel_id, user_id, thread_ts) ==
    LET Other(row) == row.session_id # sid
    IN Append(SelectSeq(db, Other),
              SessionRow(sid, channel_id, user_id, thread_ts, now))

-----------------------------------------------------------------------------
(* The orchestration loop: process_query and process_with_context *)

Variants == {"query", "context"}
Queries == { <<"q">> }

NoStep == [op |-> "none", api_fault |-> FALSE, tool_fault |-> FALSE,
           store_fault |-> FALSE]
StepOf(op, api, tool, store) ==
    [op |-> op, api_fault |-> api, tool_fault |-> tool, store_fault |-> store]

NoResult == [exit |-> "none", kind |-> "none", text |-> RawText(<<>>, 0)]

InitOrchOn(procs) ==
    /\ pc = [p \in procs |-> "idle"]
    /\ variant = [p \in procs |-> "query"]
    /\ session_id = [p \in procs |-> None]
    /\ query = [p \in procs |-> <<>>]
    /\ messages = [p \in procs |-> <<>>]
    /\ catalog = [p \in procs |-> <<>>]
    /\ tools = [p \in procs |-> <<>>]
    /\ turn = [p \in procs |-> 0]
    /\ assistant_content = [p \in procs |-> <<>>]
    /\ tool_uses = [p \in procs |-> <<>>]
    /\ tu_index = [p \in procs |-> 1]
    /\ tool_results_blocks = [p \in procs |-> <<>>]
    /\ result = [p \in procs |-> NoResult]
    /\ calls = [p \in procs |-> 0]
    /\ offered = [p \in procs |-> <<>>]
    /\ dispatched = [p \in procs |-> <<>>]
    /\ replies = [p \in procs |-> <<>>]
    /\ outcomes = [p \in procs |-> <<>>]
    /\ last_step = [p \in procs |-> NoStep]
    /\ persisted = [p \in procs |-> <<>>]

InitOrch == InitOrchOn(Procs)

InitStore ==
    /\ db_messages = <<>>
    /\ db_tool_calls = <<>>
    /\ db_sessions = <<>>
    /\ now = 1

\* The invocation leaves: `return <string>` or a fault that propagates.
Leave(p, r) ==
    /\ pc' = [pc EXCEPT ![p] = "done"]
    /\ result' = [result EXCEPT ![p] = r]

\* A caller awaits process_query(q) / process_with_context(q, session_id, ...).
Invoke(p) ==
    /\ pc[p] = "idle"
    /\ \E v \in Variants, sid \in Sessions, q \in Queries :
        /\ variant' = [variant EXCEPT ![p] = v]
        /\ session_id' = [session_id EXCEPT ![p] = IF v = "context" THEN sid ELSE None]
        /\ query' = [query EXCEPT ![p] = q]
        /\ pc' = [pc EXCEPT ![p] = IF v = "context" THEN "save_query" ELSE "list_tools"]
    /\ last_step' = [last_step EXCEPT ![p] = StepOf("invoke", FALSE, FALSE, FALSE)]
    /\ UNCHANGED <<messages, tools, catalog, turn, assistant_content, tool_uses, tu_index,
                   tool_results_blocks, result, calls, offered, dispatched, replies,
                   outcomes,
                   persisted>>
    /\ UNCHANGED <<storeVars, termVars, sidVars, slackVars>>

\* history[:-1] turned into messages, then the current query (lines 241-249)
SeededMessages(history, q) ==
    [i \in 1..(IF Len(history) > 0 THEN Len(history) - 1 ELSE 0) |->
        [role |-> history[i].role, content |-> << TextBlock(history[i].content) >>]]
    \o << UserTextMessage(q) >>

\* process_with_context up to its first await: save the user message, read
\* the history, build the message list.  Neither store call is inside a try.
BuildContext(p) ==
    /\ pc[p] = "save_query"
    /\ \E save_ok \in BOOLEAN, read_ok \in BOOLEAN :
      \E history \in GetSessionHistory(
                         SaveMessage(db_messages, session_id[p], "user", query[p]),
                         session_id[p], 5) :
        LET db1 == SaveMessage(db_messages, session_id[p], "user", query[p])
        IN \/ /\ ~save_ok
              /\ Leave(p, Raised(DbError))
              /\ UNCHANGED <<db_messages, messages, persisted>>
           \/ /\ save_ok /\ ~read_ok
              /\ db_messages' = db1
              /\ persisted' = [persisted EXCEPT ![p] = Append(@, "user")]
              /\ Leave(p, Raised(DbError))
              /\ UNCHANGED messages
           \/ /\ save_ok /\ read_ok
              /\ db_messages' = db1
              /\ persisted' = [persisted EXCEPT ![p] = Append(@, "user")]
              /\ messages' = [messages EXCEPT ![p] = SeededMessages(history, query[p])]
              /\ pc' = [pc EXCEPT ![p] = "list_tools"]
              /\ UNCHANGED result
    /\ last_step' = [last_step EXCEPT ![p] =
                        StepOf("build", FALSE, FALSE, pc'[p] = "done")]
    /\ UNCHANGED <<variant, session_id, query, tools, catalog, turn, assistant_content,
                   tool_uses, tu_index, tool_results_blocks, calls, offered, dispatched,
                   replies, outcomes, db_tool_calls, db_sessions, now>>
    /\ UNCHANGED <<termVars, sidVars, slackVars>>

\* resp = await self.session.list_tools(); tools = ...; not inside a try.
\* process_query builds its one-message list right after.
ListTools(p) ==
    /\ pc[p] = "list_tools"
    /\ \/ /\ Leave(p, Raised(McpError))
          /\ last_step' = [last_step EXCEPT ![p] =
                              StepOf("list_tools", FALSE, TRUE, FALSE)]
          /\ UNCHANGED <<tools, catalog, messages>>
       \/ \E fetched \in Catalogs :
          /\ catalog' = [catalog EXCEPT ![p] = fetched]
          /\ tools' = [tools EXCEPT ![p] = AnthropicToolsFromMcp(fetched)]
          /\ messages' = [messages EXCEPT ![p] =
                IF variant[p] = "query" THEN << UserTextMessage(query[p]) >> ELSE @]
          /\ pc' = [pc EXCEPT ![p] = "loop"]
          /\ last_step' = [last_step EXCEPT ![p] =
                              StepOf("list_tools", FALSE, FALSE, FALSE)]
          /\ UNCHANGED result
    /\ UNCHANGED <<variant, session_id, query, turn, assistant_content, tool_uses,
                   tu_index, tool_results_blocks, calls, offered, dispatched, replies,
                   outcomes,
                   persisted>>
    /\ UNCHANGED <<storeVars, termVars, sidVars, slackVars>>

\* One iteration's head: self.claude.messages.create(...), the assistant
\* message, the classification.  A fault of the call reaches the loop's
\* `except Exception`, which returns the error string.
\* AfterCompletionFault with the fault swallowed: the loop goes on to its
\* next iteration without having counted the turn
AfterCompletionFaultRetry(p) == UNCHANGED <<pc, result>>

AfterCompletionFault(p) == Leave(p, ReturnError(variant[p], ApiError))

CallCompletion(p) ==
    /\ pc[p] = "loop"
    /\ turn[p] < MAX_TURNS(variant[p])
    /\ calls' = [calls EXCEPT ![p] = @ + 1]
    /\ offered' = [offered EXCEPT ![p] = tools[p]]
    /\ \/ /\ AfterCompletionFault(p)
          /\ last_step' = [last_step EXCEPT ![p] =
                              StepOf("completion", TRUE, FALSE, FALSE)]
          /\ UNCHANGED <<messages, assistant_content, tool_uses, tu_index,
                         tool_results_blocks, replies>>
       \/ \E content \in Replies(p, turn[p]) :
          /\ assistant_content' = [assistant_content EXCEPT ![p] = content]
          /\ tool_uses' = [tool_uses EXCEPT ![p] = ToolUsesOf(content)]
          /\ messages' = [messages EXCEPT ![p] = Append(@, AssistantMessage(content))]
          /\ replies' = [replies EXCEPT ![p] = Append(@, content)]
          /\ tu_index' = [tu_index EXCEPT ![p] = 1]
          /\ tool_results_blocks' = [tool_results_blocks EXCEPT ![p] = <<>>]
          /\ pc' = [pc EXCEPT ![p] =
                IF ToolUsesOf(content) # <<>> THEN "tools" ELSE "final"]
          /\ last_step' = [last_step EXCEPT ![p] =
                              StepOf("completion", FALSE, FALSE, FALSE)]
          /\ UNCHANGED result
    /\ UNCHANGED <<variant, session_id, query, tools, catalog, turn, dispatched, persisted,
                   outcomes>>
    /\ UNCHANGED <<storeVars, termVars, sidVars, slackVars>>

\* One pass of `for tu in tool_uses`, lines 302-317 (155-167 in client.py):
\* the tool-server call with raw outcome `raw`, the normalisation, and in
\* process_with_context the two save_tool_call sites: save_ok says whether the
\* one after a returned call succeeds, handler_save_ok the one inside
\* `except Exception`.  escaped: a fault left the inner try statement.
DispatchOutcome(v, sid, tu, raw, save_ok, handler_save_ok) ==
    LET returned == raw.kind # "raise"
        result_text == NormaliseResult(raw)
        kept(text, rows) ==
            [escaped |-> FALSE, text |-> text, rows |-> rows, exc |-> NoExc]
    IN IF v = "query"
       THEN IF returned THEN kept(result_text, <<>>)
            ELSE kept(ErrorText(tu.name, raw.exc), <<>>)
       ELSE IF returned /\ save_ok
            THEN kept(result_text,
                      << ToolCallRow(sid, tu.name, tu.input, result_text, "success") >>)
            ELSE LET e == IF returned THEN DbError ELSE raw.exc
                 IN IF handler_save_ok
                    THEN kept(ErrorText(tu.name, e),
                              << ToolCallRow(sid, tu.name, tu.input,
                                             StrOfExc(e), "error") >>)
                    ELSE [escaped |-> TRUE, text |-> ErrorText(tu.name, e),
                          rows |-> <<>>, exc |-> DbError]

DispatchTool(p) ==
    /\ pc[p] = "tools"
    /\ \E raw \in RawResults(p, turn[p]), save_ok \in BOOLEAN, handler_save_ok \in BOOLEAN :
        LET tu == tool_uses[p][tu_index[p]]
            out == DispatchOutcome(variant[p], session_id[p], tu, raw,
                                   save_ok, handler_save_ok)
            blocks == Append(tool_results_blocks[p], ToolResultBlock(tu, out.text))
        IN /\ dispatched' = [dispatched EXCEPT ![p] = Append(@, tu.id)]
           /\ outcomes' = [outcomes EXCEPT ![p] = Append(@, raw)]
           /\ db_tool_calls' = db_tool_calls \o out.rows
           /\ last_step' = [last_step EXCEPT ![p] =
                  StepOf("dispatch", FALSE, raw.kind = "raise",
                         variant[p] = "context" /\
                            (out.escaped \/ (raw.kind # "raise" /\ ~save_ok)))]
           /\ IF out.escaped
              THEN /\ Leave(p, ReturnError(variant[p], out.exc))
                   /\ UNCHANGED <<messages, tu_index, tool_results_blocks, turn>>
              ELSE /\ tool_results_blocks' = [tool_results_blocks EXCEPT ![p] = blocks]
                   /\ UNCHANGED result
                   /\ IF tu_index[p] < Len(tool_uses[p])
                      THEN /\ tu_index' = [tu_index EXCEPT ![p] = @ + 1]
                           /\ UNCHANGED <<messages, turn, pc>>
                      ELSE /\ messages' = [messages EXCEPT ![p] =
                                              Append(@, ToolResultsMessage(blocks))]
                           /\ turn' = [turn EXCEPT ![p] = @ + 1]
                           /\ pc' = [pc EXCEPT ![p] = "loop"]
                           /\ UNCHANGED tu_index
    /\ UNCHANGED <<variant, session_id, query, tools, catalog, assistant_content, tool_uses,
                   calls, offered, replies, db_messages, persisted, db_sessions,
                   now>>
    /\ UNCHANGED <<termVars, sidVars, slackVars>>

\* No tool use: final_text, in process_with_context saved as an assistant
\* message (inside the loop's try), then returned.
Finish(p) ==
    /\ pc[p] = "final"
    /\ LET final_text == FinalText(variant[p], assistant_content[p])
       IN \/ /\ variant[p] = "query"
             /\ Leave(p, ReturnFinal(final_text))
             /\ last_step' = [last_step EXCEPT ![p] =
                                 StepOf("finish", FALSE, FALSE, FALSE)]
             /\ UNCHANGED <<db_messages, persisted>>
          \/ /\ variant[p] = "context"
             /\ db_messages' = SaveMessage(db_messages, session_id[p],
                                           "assistant", final_text)
             /\ persisted' = [persisted EXCEPT ![p] = Append(@, "assistant")]
             /\ Leave(p, ReturnFinal(final_text))
             /\ last_step' = [last_step EXCEPT ![p] =
                                 StepOf("finish", FALSE, FALSE, FALSE)]
          \/ /\ variant[p] = "context"
             /\ Leave(p, ReturnError(variant[p], DbError))
             /\ last_step' = [last_step EXCEPT ![p] =
                                 StepOf("finish", FALSE, FALSE, TRUE)]
             /\ UNCHANGED <<db_messages, persisted>>
    /\ UNCHANGED <<variant, session_id, query, messages, tools, catalog, turn,
                   assistant_content, tool_uses, tu_index, tool_results_blocks,
                   calls, offered, dispatched, replies, outcomes,
                   db_tool_calls, db_sessions, now>>
    /\ UNCHANGED <<termVars, sidVars, slackVars>>

\* range(MAX_TURNS) is used up: the statement after the loop.
Exhaust(p) ==
    /\ pc[p] = "loop"
    /\ turn[p] >= MAX_TURNS(variant[p])
    /\ Leave(p, ReturnExhausted)
    /\ last_step' = [last_step EXCEPT ![p] = StepOf("exhaust", FALSE, FALSE, FALSE)]
    /\ UNCHANGED <<variant, session_id, query, messages, tools, catalog, turn,
                   assistant_content, tool_uses, tu_index, tool_results_blocks,
                   calls, offered, dispatched, replies, outcomes,
                   persisted>>
    /\ UNCHANGED <<storeVars, termVars, sidVars, slackVars>>

-----------------------------------------------------------------------------
(* ChatDatabase.create_session_id *)

\* An optional string argument: absent (None) or a string.
Absent == [some |-> FALSE, val |-> <<>>]
Some(str) == [some |-> TRUE, val |-> str]

\* thread_ts or 'main'
OrMain(thread_ts) ==
    IF thread_ts.some /\ thread_ts.val # <<>> THEN thread_ts.val
    ELSE <<"m", "a", "i", "n">>

\* components = f"{channel_id}:{user_id}:{thread_ts or 'main'}"
Components(channel_id, user_id, thread_ts) ==
    channel_id \o <<":">> \o user_id \o <<":">> \o OrMain(thread_ts)

\* hashlib.md5(...).hexdigest(): the digest is taken to be free of collisions,
\* so it is determined by, and determines, the string digested.
Md5Hex(str) == [md5 |-> str]

create_session_id(channel_id, user_id, thread_ts) ==
    Md5Hex(Components(channel_id, user_id, thread_ts))

ChannelIds == { <<"C">>, <<"C", ":", "U">>, <<"D">> }
UserIds == { <<"U">>, <<"U", ":", "U">>, <<"V">> }
ThreadIds == { Absent, Some(<<>>), Some(<<"m", "a", "i", "n">>), Some(<<"1">>),
               Some(<<"2">>) }
Triples == ChannelIds \X UserIds \X ThreadIds

NoDigest == [md5 |-> <<>>]

InitSid ==
    /\ sid_in = << <<<<"C">>, <<"U">>, Absent>>, <<<<"C">>, <<"U">>, Absent>> >>
    /\ sid_out = <<NoDigest, NoDigest>>

\* Any two argument triples
InitSidPairs ==
    /\ sid_in \in Triples \X Triples
    /\ sid_out = <<NoDigest, NoDigest>>

\* Two calls of create_session_id, one on each triple.
CreateSessionIds ==
    /\ sid_out = <<NoDigest, NoDigest>>
    /\ sid_out' = << create_session_id(sid_in[1][1], sid_in[1][2], sid_in[1][3]),
                    create_session_id(sid_in[2][1], sid_in[2][2], sid_in[2][3]) >>
    /\ UNCHANGED sid_in
    /\ UNCHANGED <<orchVars, storeVars, termVars, slackVars>>

-----------------------------------------------------------------------------
(* The terminal tool server: paths are POSIX strings (character sequences) *)

\* os.path.isabs
IsAbs(path) == path # <<>> /\ Head(path) = "/"

\* os.path.join(a, b)
PathJoin(a, b) ==
    IF IsAbs(b) THEN b
    ELSE IF a = <<>> \/ a[Len(a)] = "/" THEN a \o b
    ELSE a \o <<"/">> \o b

\* path.split('/')
RECURSIVE SplitAcc(_, _, _)
SplitAcc(str, cur, acc) ==
    IF str = <<>> THEN Append(acc, cur)
    ELSE IF Head(str) = "/" THEN SplitAcc(Tail(str), <<>>, Append(acc, cur))
    ELSE SplitAcc(Tail(str), Append(cur, Head(str)), acc)
SplitSlash(str) == SplitAcc(str, <<>>, <<>>)

DotDot == <<".", ".">>
Dot == <<".">>

\* the component stack of posixpath.normpath
RECURSIVE NormStack(_, _, _)
NormStack(comps, abs, stack) ==
    IF comps = <<>> THEN stack
    ELSE LET c == Head(comps)
             rest == Tail(comps)
         IN IF c = <<>> \/ c = Dot THEN NormStack(rest, abs, stack)
            ELSE IF c # DotDot
                    \/ (~abs /\ stack = <<>>)
                    \/ (stack # <<>> /\ stack[Len(stack)] = DotDot)
                 THEN NormStack(rest, abs, Append(stack, c))
            ELSE IF stack # <<>>
                 THEN NormStack(rest, abs, SubSeq(stack, 1, Len(stack) - 1))
            ELSE NormStack(rest, abs, stack)

\* posixpath.normpath
NormPath(path) ==
    IF path = <<>> THEN Dot
    ELSE LET abs == IsAbs(path)
             two == Len(path) >= 2 /\ path[1] = "/" /\ path[2] = "/"
                    /\ ~(Len(path) >= 3 /\ path[3] = "/")
             lead == IF ~abs THEN <<>> ELSE IF two THEN <<"/", "/">> ELSE <<"/">>
             out == lead \o Join(<<"/">>, NormStack(SplitSlash(path), abs, <<>>))
         IN IF out = <<>> THEN Dot ELSE out

\* os.getcwd() of the server process: it never calls os.chdir
GetCwd == <<"/", "w">>

\* os.path.abspath
AbsPath(path) == NormPath(IF IsAbs(path) THEN path ELSE PathJoin(GetCwd, path))

\* The host's file system: directories that may exist, one regular file and
\* one symbolic link, /t/l -> /w/s.
PermanentDirs == { <<"/">>, <<"/", "w">>, <<"/", "t">> }
VolatileDirs == { <<"/", "w", "/", "s">> }
Files == { <<"/", "w", "/", "f">> }
Links == { [at |-> <<"/", "t", "/", "l">>, to |-> <<"/", "w", "/", "s">>] }
FsStates == { PermanentDirs \cup v : v \in SUBSET VolatileDirs }

StackPath(stack) == <<"/">> \o Join(<<"/">>, stack)

\* Entering the name c in the directory at stack: a symbolic link leads to
\* its target.
Enter(stack, c) ==
    LET entered == Append(stack, c)
        links == { l \in Links : l.at = StackPath(entered) }
    IN IF links = {} THEN entered
       ELSE NormStack(SplitSlash((CHOOSE l \in links : TRUE).to), TRUE, <<>>)

\* The kernel's lookup of a path, one component at a time ("" and "." stay,
\* ".." goes to the parent, a name must exist, a file has no children, a
\* symbolic link is followed).
RECURSIVE Walk(_, _, _)
Walk(fs, comps, stack) ==
    IF StackPath(stack) \in Files
    THEN [found |-> comps = <<>>, is_dir |-> FALSE]
    ELSE IF StackPath(stack) \notin fs THEN [found |-> FALSE, is_dir |-> FALSE]
    ELSE IF comps = <<>> THEN [found |-> TRUE, is_dir |-> TRUE]
    ELSE LET c == Head(comps)
         IN IF c = <<>> \/ c = Dot THEN Walk(fs, Tail(comps), stack)
            ELSE IF c = DotDot
                 THEN Walk(fs, Tail(comps),
                           IF stack = <<>> THEN stack
                           ELSE SubSeq(stack, 1, Len(stack) - 1))
            ELSE Walk(fs, Tail(comps), Enter(stack, c))

Lookup(fs, path) ==
    IF path = <<>> THEN [found |-> FALSE, is_dir |-> FALSE]
    ELSE Walk(fs, SplitSlash(path),
              IF IsAbs(path) THEN <<>>
              ELSE NormStack(SplitSlash(GetCwd), TRUE, <<>>))

\* os.path.exists, os.path.isdir
PathExists(fs, path) == Lookup(fs, path).found
PathIsDir(fs, path) == Lookup(fs, path).found /\ Lookup(fs, path).is_dir

\* command.startswith("cd ")
StartsWithCd(command) ==
    Len(command) >= 3 /\ SubSeq(command, 1, 3) = <<"c", "d", " ">>

\* OrCurrent falling back on the directory the server was started in
OrCurrentAtStart(x, cur) == IF x.some /\ x.val # <<>> THEN x.val ELSE GetCwd

\* x or current_directory, for an optional string x
OrCurrent(x, cur) == IF x.some /\ x.val # <<>> THEN x.val ELSE cur

\* RunCd with the isdir test left out: whatever exists is taken for a directory
RunCdExistsOnly(fs, command, cwd, cur) ==
    LET new_dir == Strip(SubSeq(command, 4, Len(command)))
        target_dir == IF IsAbs(new_dir) THEN new_dir
                      ELSE PathJoin(OrCurrent(cwd, cur), new_dir)
    IN IF PathExists(fs, target_dir)
       THEN [stdout |-> <<"Changed directory to: ">> \o target_dir,
             stderr |-> <<>>,
             return_code |-> 0,
             new_cwd |-> AbsPath(target_dir)]
       ELSE [stdout |-> <<>>,
             stderr |-> <<"Directory not found: ">> \o target_dir,
             return_code |-> 1,
             new_cwd |-> OrCurrent(cwd, cur)]

\* run_command, the directory-change branch (lines 38-58)
RunCd(fs, command, cwd, cur) ==
    LET new_dir == Strip(SubSeq(command, 4, Len(command)))
        target_dir == IF IsAbs(new_dir) THEN new_dir
                      ELSE PathJoin(OrCurrent(cwd, cur), new_dir)
    IN IF PathExists(fs, target_dir) /\ PathIsDir(fs, target_dir)
       THEN [stdout |-> <<"Changed directory to: ">> \o target_dir,
             stderr |-> <<>>,
             return_code |-> 0,
             new_cwd |-> AbsPath(target_dir)]
       ELSE [stdout |-> <<>>,
             stderr |-> <<"Directory not found: ">> \o target_dir,
             return_code |-> 1,
             new_cwd |-> OrCurrent(cwd, cur)]

\* run_command, the subprocess branch once the process has ended (lines 87-94)
RunCompleted(proc, cwd, cur) ==
    [stdout |-> proc.stdout, stderr |-> proc.stderr,
     return_code |-> proc.returncode, new_cwd |-> OrCurrent(cwd, cur)]

\* RunFaulted reporting the code of a failed directory change
RunFaultedAsFailure(e, cwd, cur) ==
    [stdout |-> <<>>, stderr |-> <<"Error executing command: ", e>>,
     return_code |-> 1, new_cwd |-> OrCurrent(cwd, cur)]

\* run_command, `except Exception as e` (lines 96-102)
RunFaulted(e, cwd, cur) ==
    [stdout |-> <<>>, stderr |-> <<"Error executing command: ", e>>,
     return_code |-> -1, new_cwd |-> OrCurrent(cwd, cur)]

\* CommitCwd without the test that the command is a directory change
CommitCwdOnAnySuccess(command, res, cur) ==
    IF res.return_code = 0 THEN res.new_cwd ELSE cur

\* run_terminal_command, lines 117-119
CommitCwd(command, res, cur) ==
    IF StartsWithCd(command) /\ res.return_code = 0 THEN res.new_cwd ELSE cur

\* run_terminal_command, lines 121-131: the sections of the returned block
FormatOutput(command, working_dir, res) ==
    << <<"Command: ", command>>, <<"Working Directory: ", working_dir>>,
       <<"Return Code: ", res.return_code>> >>
    \o (IF res.stdout # <<>> THEN << <<"Output:", res.stdout>> >> ELSE <<>>)
    \o (IF res.stderr # <<>> THEN << <<"Error:", res.stderr>> >> ELSE <<>>)

\* What preparing or launching the subprocess may raise
LaunchFaults == {"FileNotFoundError", "PermissionError"}
NoFault == "none"

\* get_shell_command
get_shell_command(sys) ==
    IF sys = "Darwin" THEN <<"/bin/bash", "-c">>
    ELSE IF sys = "Windows" THEN <<"cmd.exe", "/c">>
    ELSE <<"/bin/bash", "-c">>

\* str.split(): the maximal runs of characters that are not whitespace
RECURSIVE SplitWs(_, _, _)
SplitWs(str, cur, acc) ==
    LET flush == IF cur = <<>> THEN acc ELSE Append(acc, cur)
    IN IF str = <<>> THEN flush
       ELSE IF Head(str) \in Whitespace THEN SplitWs(Tail(str), <<>>, flush)
       ELSE SplitWs(Tail(str), Append(cur, Head(str)), acc)

\* command_map
command_map(name) ==
    CASE name = <<"l", "s">> -> Some(<<"d", "i", "r">>)
      [] name = <<"p", "w", "d">> -> Some(<<"c", "d">>)
      [] name = <<"c", "a", "t">> -> Some(<<"t", "y", "p", "e">>)
      [] name = <<"r", "m">> -> Some(<<"d", "e", "l">>)
      [] name = <<"c", "l", "e", "a", "r">> -> Some(<<"c", "l", "s">>)
      [] name = <<"m", "k", "d", "i", "r">> -> Some(<<"m", "k", "d", "i", "r">>)
      [] name = <<"t", "o", "u", "c", "h">> -> Some(<<"e", "c", "h", "o", ".", " ", ">">>)
      [] OTHER -> Absent

\* run_command, lines 60-76: the command string handed to the shell, or the
\* fault that preparing it raises (cmd_parts[0] of a command with no token)
PrepareCommand(sys, command) ==
    IF sys # "Windows" THEN [raised |-> NoFault, command |-> command]
    ELSE LET cmd_parts == SplitWs(command, <<>>, <<>>)
         IN IF cmd_parts = <<>>
            THEN [raised |-> "IndexError", command |-> command]
            ELSE IF command_map(cmd_parts[1]).some
                 THEN [raised |-> NoFault,
                       command |-> Join(<<" ">>,
                                        <<command_map(cmd_parts[1]).val>>
                                        \o Tail(cmd_parts))]
                 ELSE [raised |-> NoFault, command |-> command]

Clients == {"A", "B"}

Commands ==
    { <<"c", "d", " ", "s">>,                       \* cd s
      <<"c", "d", " ", " ", "/", "t", " ">>,        \* cd  /t  (blanks around)
      <<"c", "d", " ", ".", ".">>,                  \* cd ..
      <<"c", "d", " ", "s", "/", ".", ".">>,        \* cd s/..
      <<"c", "d", " ", "f">>,                       \* cd f    (a regular file)
      <<"c", "d", " ", "x">>,                       \* cd x    (does not exist)
      <<"c", "d", " ", "/", "t", "/", "l", "/", ".", ".", "/", "s">>,  \* cd /t/l/../s
      <<"c", "d", " ">>,                            \* "cd " with an empty argument
      <<"c", "d">>,                                 \* cd      (no blank: a subprocess)
      <<"l", "s">> }                                \* ls

\* Commands for the subprocess branch: names inside and outside command_map,
\* with arguments, with runs of blanks, and without any token
ShellCommands ==
    { <<"l", "s">>,                                 \* ls
      <<"c", "a", "t", " ", "\"", "a", " ", " ", "b", "\"">>,  \* cat "a  b"
      <<"l", "s", "x", " ", " ", "a">>,             \* lsx  a (not in the table)
      <<"t", "o", "u", "c", "h", " ", "a">>,        \* touch a
      <<" ">>,                                      \* a blank
      <<>> }                                        \* the empty string

Systems == {"Linux", "Darwin", "Windows"}

\* The commands explored on each platform.  Directory changes follow the
\* POSIX path rules modelled here, so they are explored on the POSIX
\* platforms; the translation is explored with ShellCommands.
CommandsOn(sys) ==
    CASE sys = "Linux" -> Commands
      [] sys = "Darwin" -> ShellCommands \cup { <<"c", "d", " ", "s">>, <<"c", "d", " ", "x">> }
      [] OTHER -> ShellCommands

WorkingDirectories ==
    { Absent, Some(<<"/", "t">>), Some(<<"s">>) }

\* What a finished subprocess reports
ProcessOutcomes ==
    { [returncode |-> 0, stdout |-> <<"o">>, stderr |-> <<>>],
      [returncode |-> 1, stdout |-> <<>>, stderr |-> <<"e">>] }

NoTermResult == [stdout |-> <<>>, stderr |-> <<>>, return_code |-> 0, new_cwd |-> <<>>]
IdleTerm ==
    [pc |-> "idle", command |-> <<>>, working_directory |-> Absent,
     working_dir |-> <<>>, result |-> NoTermResult, output |-> <<>>,
     raised |-> NoFault, exec_calls |-> <<>>]

InitTerm ==
    /\ current_directory = GetCwd
    /\ dirs = PermanentDirs \cup VolatileDirs
    /\ term = [c \in Clients |-> IdleTerm]
    /\ last_cd = [c \in Clients |-> Absent]
    /\ system = "Linux"

\* run_terminal_command(command, working_directory) up to its first
\* suspension: a directory change runs to the end (run_command has no await on
\* that branch), any other command is left waiting for its subprocess.
TermInvoke(c) ==
    /\ term[c].pc = "idle"
    /\ \E command \in CommandsOn(system), working_directory \in WorkingDirectories :
        LET working_dir == OrCurrent(working_directory, current_directory)
            res == RunCd(dirs, command, Some(working_dir), current_directory)
            prep == PrepareCommand(system, command)
            faulted == RunFaulted(prep.raised, Some(working_dir), current_directory)
            call == [IdleTerm EXCEPT !.command = command,
                                     !.working_directory = working_directory,
                                     !.working_dir = working_dir]
        IN IF StartsWithCd(command)
           THEN /\ current_directory' = CommitCwd(command, res, current_directory)
                /\ last_cd' = IF res.return_code = 0
                              THEN [last_cd EXCEPT ![c] = Some(res.new_cwd)]
                              ELSE last_cd
                /\ term' = [term EXCEPT ![c] =
                      [call EXCEPT !.pc = "returned", !.result = res,
                                   !.output = FormatOutput(command, working_dir, res)]]
           ELSE /\ term' = [term EXCEPT ![c] =
                      IF prep.raised # NoFault
                      THEN [call EXCEPT !.pc = "returned", !.result = faulted,
                                        !.raised = prep.raised,
                                        !.output = FormatOutput(command, working_dir,
                                                                faulted)]
                      ELSE [call EXCEPT !.pc = "running",
                                        !.exec_calls =
                                           << [argv |-> get_shell_command(system)
                                                        \o <<prep.command>>,
                                               cwd |-> working_dir] >>]]
                /\ UNCHANGED <<current_directory, last_cd>>
    /\ UNCHANGED <<dirs, system>>
    /\ UNCHANGED <<orchVars, storeVars, sidVars, slackVars>>

\* The subprocess ends, or launching it faults (always when its working
\* directory is no directory); what it did may have changed the file system.
TermComplete(c) ==
    /\ term[c].pc = "running"
    /\ \E fs \in FsStates :
        LET t == term[c]
            finish(res, e) ==
                /\ current_directory' = CommitCwd(t.command, res, current_directory)
                /\ term' = [term EXCEPT ![c] =
                      [t EXCEPT !.pc = "returned", !.result = res, !.raised = e,
                                !.output = FormatOutput(t.command, t.working_dir, res)]]
        IN \/ /\ PathIsDir(dirs, t.working_dir)
              /\ dirs' = fs
              /\ \E proc \in ProcessOutcomes :
                    finish(RunCompleted(proc, Some(t.working_dir), current_directory),
                           NoFault)
           \/ /\ dirs' = dirs
              /\ \E e \in LaunchFaults :
                    finish(RunFaulted(e, Some(t.working_dir), current_directory), e)
    /\ UNCHANGED <<last_cd, system>>
    /\ UNCHANGED <<orchVars, storeVars, sidVars, slackVars>>

\* The tool's reply has been delivered; the client may call again.
TermReturn(c) ==
    /\ term[c].pc = "returned"
    /\ term' = [term EXCEPT ![c] = IdleTerm]
    /\ UNCHANGED <<current_directory, dirs, last_cd, system>>
    /\ UNCHANGED <<orchVars, storeVars, sidVars, slackVars>>

-----------------------------------------------------------------------------
(* The Slack event handlers: handle_mention and handle_message *)

\* The task that runs the handler's call of process_with_context
HandlerProc == "p1"

\* response["user_id"] of auth_test
BotUserId == <<"B">>

\* f"<@{bot_id}>"
Mention(bot_id) == <<"<", "@">> \o bot_id \o <<">">>

\* str.replace(old, ""), old not empty
RECURSIVE RemoveAll(_, _)
RemoveAll(str, old) ==
    IF Len(str) < Len(old) THEN str
    ELSE IF SubSeq(str, 1, Len(old)) = old
         THEN RemoveAll(SubSeq(str, Len(old) + 1, Len(str)), old)
         ELSE <<Head(str)>> \o RemoveAll(Tail(str), old)

Greeting ==
    RawText(<<"Hi! How can I help you? You can ask me about Terminal resources, logs, or infrastructure.">>,
            89)

\* f" Sorry, I encountered an error: {str(e)}"
Apology(e) == RawText(<<" Sorry, I encountered an error: ">> \o e.src, 32 + e.len)

SlackError == RawText(<<"slack_sdk.errors.SlackApiError">>, 20)

NoEvent == [type |-> "none", text |-> <<>>, thread_ts |-> Absent, ts |-> <<>>,
            bot_id |-> Absent, channel |-> <<>>, user |-> <<>>]

EventThreads == { Absent, Some(<<"2">>) }

\* app_mention events: the text holds the mention of the bot
MentionEvents ==
    { [type |-> "app_mention", text |-> t, thread_ts |-> th, ts |-> <<"1">>,
       bot_id |-> Absent, channel |-> <<"C">>, user |-> <<"U">>] :
      t \in { Mention(BotUserId),
              Mention(BotUserId) \o <<" ">>,
              Mention(BotUserId) \o <<" ", "q">> },
      th \in EventThreads }

\* message events that handle_slack_event hands to handle_message (direct
\* messages and messages in a thread)
MessageEvents ==
    { [type |-> "message", text |-> t, thread_ts |-> th, ts |-> <<"1">>,
       bot_id |-> b, channel |-> <<"D">>, user |-> <<"U">>] :
      t \in { <<>>, <<" ">>, <<"q">> },
      th \in EventThreads,
      b \in { Absent, Some(BotUserId) } }

\* x or y, for optional strings
OrElse(x, y) == IF x.some /\ x.val # <<>> THEN x ELSE y

\* The handler's local thread_ts
ThreadTs(ev) ==
    IF ev.type = "app_mention" THEN OrElse(ev.thread_ts, Some(ev.ts))
    ELSE ev.thread_ts

InitSlack ==
    /\ hpc = "idle"
    /\ event = NoEvent
    /\ event_text = <<>>
    /\ posted = <<>>
    /\ hexit = "none"
    /\ hfaults = {}

\* The handler is left: by return, or by an exception nothing catches.
HandlerLeaves(how) ==
    /\ hpc' = "ended"
    /\ hexit' = how

\* handle_mention is entered and awaits get_bot_id.
HandleMention ==
    /\ hpc = "idle"
    /\ \E ev \in MentionEvents : event' = ev
    /\ hpc' = "get_bot_id"
    /\ UNCHANGED <<event_text, posted, hexit, hfaults>>
    /\ UNCHANGED <<orchVars, storeVars, termVars, sidVars>>

\* get_bot_id returns and the mention is removed from the text, or auth_test
\* faults.
GetBotId ==
    /\ hpc = "get_bot_id"
    /\ \/ /\ event_text' = Strip(RemoveAll(event.text, Mention(BotUserId)))
          /\ hpc' = IF event_text' = <<>> THEN "greet" ELSE "session"
          /\ UNCHANGED <<hexit, hfaults>>
       \/ /\ HandlerLeaves("raise")
          /\ hfaults' = hfaults \cup {"slack"}
          /\ UNCHANGED event_text
    /\ UNCHANGED <<event, posted>>
    /\ UNCHANGED <<orchVars, storeVars, termVars, sidVars>>

\* `if not text:` of handle_mention: the greeting is posted.
PostGreeting ==
    /\ hpc = "greet"
    /\ \/ /\ posted' = Append(posted, Greeting)
          /\ HandlerLeaves("return")
          /\ UNCHANGED hfaults
       \/ /\ HandlerLeaves("raise")
          /\ hfaults' = hfaults \cup {"slack"}
          /\ UNCHANGED posted
    /\ UNCHANGED <<event, event_text>>
    /\ UNCHANGED <<orchVars, storeVars, termVars, sidVars>>

\* handle_message is entered: the bot's own messages and empty texts are
\* dropped.
HandleMessage ==
    /\ hpc = "idle"
    /\ \E ev \in MessageEvents :
         /\ event' = ev
         /\ IF (ev.bot_id.some /\ ev.bot_id.val # <<>>) \/ ev.text = <<>>
            THEN /\ HandlerLeaves("return")
                 /\ UNCHANGED event_text
            ELSE /\ event_text' = ev.text
                 /\ hpc' = "session"
                 /\ UNCHANGED hexit
    /\ UNCHANGED <<posted, hfaults>>
    /\ UNCHANGED <<orchVars, storeVars, termVars, sidVars>>

\* create_session_id and upsert_session, then the call of
\* process_with_context; a fault of upsert_session leaves the handler.
OpenSession ==
    /\ hpc = "session"
    /\ pc[HandlerProc] = "idle"
    /\ LET p == HandlerProc
           sid == create_session_id(event.channel, event.user, ThreadTs(event))
       IN \/ /\ variant' = [variant EXCEPT ![p] = "context"]
             /\ session_id' = [session_id EXCEPT ![p] = sid]
             /\ query' = [query EXCEPT ![p] = event_text]
             /\ pc' = [pc EXCEPT ![p] = "save_query"]
             /\ last_step' = [last_step EXCEPT ![p] =
                                 StepOf("invoke", FALSE, FALSE, FALSE)]
             /\ db_sessions' = UpsertSession(db_sessions, sid, event.channel,
                                             event.user, ThreadTs(event))
             /\ hpc' = "await"
             /\ UNCHANGED <<hexit, hfaults>>
          \/ /\ HandlerLeaves("raise")
             /\ hfaults' = hfaults \cup {"upsert_session"}
             /\ UNCHANGED <<variant, session_id, query, pc, last_step, db_sessions>>
    /\ UNCHANGED <<messages, tools, catalog, turn, assistant_content, tool_uses, tu_index,
                   tool_results_blocks, result, calls, offered, dispatched, replies,
                   outcomes,
                   persisted>>
    /\ UNCHANGED <<event, event_text, posted>>
    /\ UNCHANGED <<db_messages, db_tool_calls, now>>
    /\ UNCHANGED <<termVars, sidVars>>

\* process_with_context has returned: its string is posted; a fault of the
\* posting is caught by the handler's except.
PostResponse ==
    /\ hpc = "await"
    /\ pc[HandlerProc] = "done"
    /\ result[HandlerProc].exit = "return"
    /\ \/ /\ posted' = Append(posted, result[HandlerProc].text)
          /\ HandlerLeaves("return")
          /\ UNCHANGED hfaults
       \/ /\ hpc' = "except"
          /\ hfaults' = hfaults \cup {"slack"}
          /\ UNCHANGED <<posted, hexit>>
    /\ UNCHANGED <<event, event_text>>
    /\ UNCHANGED <<orchVars, storeVars, termVars, sidVars>>

\* `except Exception as e:` the apology is posted, for a fault that left
\* process_with_context or for a fault of the posting of its answer.
PostApology ==
    /\ \/ hpc = "except"
       \/ /\ hpc = "await"
          /\ pc[HandlerProc] = "done"
          /\ result[HandlerProc].exit = "raise"
    /\ LET e == IF hpc = "except" THEN SlackError ELSE result[HandlerProc].text
       IN \/ /\ posted' = Append(posted, Apology(e))
             /\ HandlerLeaves("return")
             /\ UNCHANGED hfaults
          \/ /\ HandlerLeaves("raise")
             /\ hfaults' = hfaults \cup {"slack"}
             /\ UNCHANGED posted
    /\ UNCHANGED <<event, event_text>>
    /\ UNCHANGED <<orchVars, storeVars, termVars, sidVars>>

-----------------------------------------------------------------------------
(* Properties of the orchestration loop *)

Range(f) == { f[i] : i \in DOMAIN f }

\* user is the tool-result message that answers the assistant message asst:
\* one tool_result block per tool_use block, in order, id for id
AnsweredBy(asst, user) ==
    LET tus == ToolUsesOf(asst.content)
    IN /\ user.role = "user"
       /\ Len(user.content) = Len(tus)
       /\ \A k \in 1..Len(tus) :
            /\ user.content[k].type = "tool_result"
            /\ user.content[k].tool_use_id = tus[k].id

\* C1: every reply with k >= 1 tool-use blocks is in the message list as an
\* assistant message whose very next message is one user message of exactly
\* k tool-result blocks, the i-th carrying the id of the i-th tool-use block;
\* such an assistant message is last in the list only while its blocks are
\* being dispatched (the results gathered so far already id for id) or
\* after the invocation has left on a fault.
C1_ToolResultsAnswerToolUses ==
    \A p \in Procs :
        /\ \A i \in 1..Len(messages[p]) :
              (messages[p][i].role = "assistant"
                  /\ ToolUsesOf(messages[p][i].content) # <<>>)
              => IF i < Len(messages[p])
                 THEN AnsweredBy(messages[p][i], messages[p][i + 1])
                 ELSE \/ pc[p] = "tools"
                      \/ pc[p] = "done" /\ result[p].kind = "error"
        /\ pc[p] = "tools" =>
              /\ messages[p][Len(messages[p])]
                    = AssistantMessage(replies[p][Len(replies[p])])
              /\ tool_uses[p] = ToolUsesOf(replies[p][Len(replies[p])])
              /\ Len(tool_results_blocks[p]) = tu_index[p] - 1
              /\ \A k \in 1..Len(tool_results_blocks[p]) :
                    tool_results_blocks[p][k].tool_use_id = tool_uses[p][k].id

\* A reply with two tool-use blocks of different ids has been answered.
C1_Witness ==
    \E p \in Procs : \E i \in 1..Len(messages[p]) :
        LET tus == ToolUsesOf(messages[p][i].content)
        IN /\ messages[p][i].role = "assistant"
           /\ Len(tus) = 2
           /\ tus[1].id # tus[2].id
           /\ i < Len(messages[p])
           /\ messages[p][i + 1].content[2].tool_use_id = tus[2].id

\* Every text put into a tool-result block and every output written by
\* save_tool_call so far
ToolResultTexts ==
    UNION { { m.content[k].content[1].text :
                k \in { j \in 1..Len(m.content) : m.content[j].type = "tool_result" } } :
            m \in UNION { Range(messages[p]) : p \in Procs } }
    \cup UNION { { b.content[1].text : b \in Range(tool_results_blocks[p]) } :
                 p \in Procs }
SavedOutputs == { row.output : row \in Range(db_tool_calls) }

\* C2: whatever the raw tool-server result (a list whose first part has a
\* text, a list without one, a non-list value, a raised fault), the text of
\* every tool-result block and the output of every tool-call record is at
\* most 10,000 characters long.
C2_ToolTextsWithinCap ==
    \A t \in ToolResultTexts \cup SavedOutputs : t.len <= CAP

\* C3: an invocation that has left, and whose completion-service calls all
\* returned a reply requesting tool use, made exactly MAX_TURNS calls and
\* returned the exhaustion message; no invocation makes more than MAX_TURNS
\* calls.
C3_AllToolRepliesExhaust ==
    \A p \in Procs :
        /\ calls[p] <= MAX_TURNS(variant[p])
        /\ (/\ pc[p] = "done"
            /\ calls[p] >= 1
            /\ Len(replies[p]) = calls[p]
            /\ \A n \in 1..Len(replies[p]) : ToolUsesOf(replies[p][n]) # <<>>)
           => /\ calls[p] = MAX_TURNS(variant[p])
              /\ result[p] = ReturnExhausted

\* C4: an invocation that has left, and whose first reply held no tool-use
\* block, made exactly one completion-service call, dispatched no tool and
\* returned the text blocks of that reply joined into one text.
C4_FirstReplyWithoutToolUse ==
    \A p \in Procs :
        (/\ pc[p] = "done"
         /\ Len(replies[p]) >= 1
         /\ ToolUsesOf(replies[p][1]) = <<>>)
        => /\ calls[p] = 1
           /\ dispatched[p] = <<>>
           /\ result[p] = ReturnFinal(FinalText(variant[p], replies[p][1]))

\* C5: right after the dispatch of a tool-use block whose tool-server call
\* raised, the block has its error result (text naming the tool and the
\* fault; in process_with_context a record of status "error"), the
\* invocation has not left, and it is at the next block of the turn or, after
\* the last block, back at the head of the loop.
C5_ToolFaultBecomesErrorResult ==
    \A p \in Procs :
        (last_step[p].op = "dispatch" /\ last_step[p].tool_fault)
        => /\ pc[p] \in {"tools", "loop"}
           /\ result[p] = NoResult
           /\ tool_results_blocks[p] # <<>>
           /\ LET b == tool_results_blocks[p][Len(tool_results_blocks[p])]
                  tu == tool_uses[p][Len(tool_results_blocks[p])]
              IN /\ b.tool_use_id = tu.id
                 /\ b.tool_use_id = dispatched[p][Len(dispatched[p])]
                 /\ SubSeq(b.content[1].text.src, 1, 3)
                       = <<"Error executing tool '", tu.name, "': ">>
                 /\ variant[p] = "context" =>
                       /\ db_tool_calls # <<>>
                       /\ db_tool_calls[Len(db_tool_calls)].status = "error"
                       /\ db_tool_calls[Len(db_tool_calls)].tool_name = tu.name
           /\ pc[p] = "tools" => tu_index[p] = Len(tool_results_blocks[p]) + 1
           /\ pc[p] = "loop" =>
                 messages[p][Len(messages[p])]
                    = ToolResultsMessage(tool_results_blocks[p])

\* The ids of the tool-use blocks of a sequence of replies, in order
RECURSIVE ToolUseIds(_)
ToolUseIds(rs) ==
    IF rs = <<>> THEN <<>>
    ELSE LET tus == ToolUsesOf(Head(rs))
         IN [k \in 1..Len(tus) |-> tus[k].id] \o ToolUseIds(Tail(rs))

\* C6: once a completion-service call has raised, the invocation has left
\* with the error string that describes the fault and the faulted call is
\* the last thing it did: the calls made are the replies received plus the
\* faulted one, the dispatches are those of the earlier replies and no
\* others, and the invocation has persisted no assistant message.
C6_CompletionFaultEndsInvocation ==
    \A p \in Procs :
        (\/ last_step[p].api_fault
         \/ result[p] = ReturnError(variant[p], ApiError))
        => /\ pc[p] = "done"
           /\ last_step[p] = StepOf("completion", TRUE, FALSE, FALSE)
           /\ result[p] = ReturnError(variant[p], ApiError)
           /\ calls[p] = Len(replies[p]) + 1
           /\ dispatched[p] = ToolUseIds(replies[p])
           /\ "assistant" \notin Range(persisted[p])

\* The second call of a process_with_context invocation raised, after a
\* turn whose tools were dispatched.
C6_Witness ==
    \E p \in Procs :
        /\ last_step[p].api_fault
        /\ variant[p] = "context"
        /\ calls[p] = 2
        /\ dispatched[p] # <<>>
        /\ persisted[p] = <<"user">>
        /\ result[p].kind = "error"

\* C7: an invocation leaves only by returning a string: the final answer,
\* a fault string or the exhaustion message; no fault of the tool-catalog
\* fetch, of a store write or read, of the completion service or of the
\* tool server makes it leave by raising.
C7_LeavesOnlyByReturning ==
    \A p \in Procs :
        pc[p] = "done"
        => /\ result[p].exit = "return"
           /\ result[p].kind \in {"final", "error", "exhausted"}

-----------------------------------------------------------------------------
(* Properties of create_session_id *)

\* C8: two argument triples (channel_id, user_id, thread_ts or absent) that
\* differ in at least one component get different session ids, the strings
\* digested being different already.
C8_SessionIdInjective ==
    (sid_out # <<NoDigest, NoDigest>> /\ sid_in[1] # sid_in[2])
    => /\ sid_out[1] # sid_out[2]
       /\ Components(sid_in[1][1], sid_in[1][2], sid_in[1][3])
            # Components(sid_in[2][1], sid_in[2][2], sid_in[2][3])

-----------------------------------------------------------------------------
(* Properties of the terminal tool server *)

\* The argument of a "cd <arg>" command, and the path it resolves to against
\* the working directory wd
CdArg(command) == Strip(SubSeq(command, 4, Len(command)))
Resolved(command, wd) ==
    IF IsAbs(CdArg(command)) THEN CdArg(command) ELSE PathJoin(wd, CdArg(command))

\* The invocation of client c returns in this step
Returns(c) == term[c].pc # "returned" /\ term'[c].pc = "returned"

\* C9: in every step in which run_command handles "cd <arg>": if <arg>,
\* resolved against the working directory in effect (taken as it is when
\* absolute), exists and is a directory, the result has return_code 0 and
\* new_cwd the absolute form of the resolved path, an absolute path;
\* otherwise it has a non-zero return_code, a non-empty stderr and new_cwd
\* the working directory in effect before the call.
C9_CdResult ==
    [][\A c \in Clients :
         (Returns(c) /\ StartsWithCd(term'[c].command))
         => LET t == term'[c]
                wd == OrCurrent(t.working_directory, current_directory)
                resolved == Resolved(t.command, wd)
            IN /\ t.working_dir = wd
               /\ IF PathIsDir(dirs, resolved)
                  THEN /\ t.result.return_code = 0
                       /\ t.result.new_cwd = AbsPath(resolved)
                       /\ IsAbs(t.result.new_cwd)
                  ELSE /\ t.result.return_code # 0
                       /\ t.result.stderr # <<>>
                       /\ t.result.new_cwd = wd]_vars

\* One client has had a relative directory change succeed, the other a
\* directory change fail on a regular file or a missing path.
C9_Witness ==
    \E a, b \in Clients :
        /\ term[a].pc = "returned" /\ term[b].pc = "returned"
        /\ StartsWithCd(term[a].command) /\ StartsWithCd(term[b].command)
        /\ ~IsAbs(CdArg(term[a].command))
        /\ term[a].result.return_code = 0
        /\ term[a].result.new_cwd # term[a].working_dir
        /\ term[b].result.return_code = 1
        /\ term[b].result.new_cwd = term[b].working_dir

\* C10: current_directory changes only in a step in which an invocation
\* returns whose command is a directory change with return code 0, and it
\* becomes that invocation's new_cwd; every other returning invocation (any
\* other command with any exit code, a failed directory change, a fault)
\* and every other step leave it as it was, whatever working_directory
\* argument was given.
C10_CurrentDirectoryFrame ==
    [][/\ current_directory' # current_directory
          => \E c \in Clients :
                /\ Returns(c)
                /\ StartsWithCd(term'[c].command)
                /\ term'[c].result.return_code = 0
                /\ current_directory' = term'[c].result.new_cwd
       /\ \A c \in Clients :
            Returns(c)
            => current_directory' =
                 IF StartsWithCd(term'[c].command) /\ term'[c].result.return_code = 0
                 THEN term'[c].result.new_cwd
                 ELSE current_directory]_vars

\* A directory change given an explicit working_directory has succeeded and
\* moved current_directory away from the directory the server started in,
\* while another command given an explicit working_directory has ended with
\* exit code 0 in a directory that is not current_directory.
C10_Witness ==
    \E a, b \in Clients :
        /\ term[a].pc = "returned"
        /\ StartsWithCd(term[a].command)
        /\ term[a].working_directory.some
        /\ term[a].result.return_code = 0
        /\ current_directory = term[a].result.new_cwd
        /\ current_directory # GetCwd
        /\ term[b].pc = "returned"
        /\ ~StartsWithCd(term[b].command)
        /\ term[b].working_directory.some
        /\ term[b].result.return_code = 0
        /\ term[b].result.new_cwd # current_directory

\* C11: a fault raised in run_command while the subprocess is prepared or
\* launched (as it must be when the working directory is no directory) ends
\* in a returned result with return_code -1, an empty stdout, an stderr that
\* names the fault and new_cwd the incoming working directory; the
\* invocation returns, and current_directory stays as it was.
C11_LaunchFaultBecomesResult ==
    [][\A c \in Clients :
         /\ (Returns(c) /\ term'[c].raised # NoFault)
            => /\ term'[c].result.return_code = -1
               /\ term'[c].result.stdout = <<>>
               /\ term'[c].result.stderr
                    = <<"Error executing command: ", term'[c].raised>>
               /\ term'[c].result.new_cwd = term[c].working_dir
               /\ current_directory' = current_directory
         /\ (Returns(c) /\ term[c].pc = "running"
                        /\ ~PathIsDir(dirs, term[c].working_dir))
            => term'[c].raised \in LaunchFaults
         /\ term[c].pc = "running" => term'[c].pc \in {"running", "returned"}]_vars

\* A launch has faulted for a command given an explicit working_directory
\* that is not current_directory.
C11_Witness ==
    \E c \in Clients :
        /\ term[c].pc = "returned"
        /\ term[c].raised \in LaunchFaults
        /\ term[c].working_directory.some
        /\ term[c].result.new_cwd # current_directory
        /\ PathIsDir(dirs, term[c].working_dir)

\* C18: there is one current_directory for all sessions: a command begun
\* without a working_directory argument runs in current_directory as it is
\* at that moment, which is the directory the server started in or the
\* new_cwd of the latest successful directory change of some client, not
\* necessarily the one calling.  (The state the claim says is reachable is
\* C18_Witness.)
C18_OneDirectoryForAllSessions ==
    [][\A c \in Clients :
         (term[c].pc = "idle" /\ term'[c].pc # "idle"
             /\ ~term'[c].working_directory.some)
         => /\ term'[c].working_dir = current_directory
            /\ \/ current_directory = GetCwd
               \/ \E b \in Clients : last_cd[b] = Some(current_directory)]_vars

\* Session a has changed directory successfully, and its next command, given
\* no working_directory, runs in another directory: the one session b
\* changed to.
C18_Witness ==
    \E a, b \in Clients :
        /\ a # b
        /\ term[a].pc \in {"running", "returned"}
        /\ ~StartsWithCd(term[a].command)
        /\ ~term[a].working_directory.some
        /\ last_cd[a].some
        /\ term[a].working_dir # last_cd[a].val
        /\ term[a].working_dir # GetCwd
        /\ last_cd[b] = Some(term[a].working_dir)

-----------------------------------------------------------------------------
(* Further properties of the orchestration loop *)

\* C12: at every completion call of process_with_context, also when the
\* context is seeded from the stored messages of earlier invocations of the
\* session (some of which stored no answer), the message list handed to the
\* completion service begins with a message of role "user".
C12_MessagesBeginWithUser ==
    \A p \in Procs :
        (variant[p] = "context" /\ calls[p] >= 1) => messages[p][1].role = "user"

\* The stored rows of the session of p that precede the row of its own query,
\* in the order in which they were stored.
PriorRows(p) ==
    LET rows == RowsOfSession(db_messages, session_id[p])
    IN SubSeq(rows, 1, Len(rows) - 1)

\* The latest k elements of a sequence, in its order.
Latest(seq, k) ==
    SubSeq(seq, IF Len(seq) > k THEN Len(seq) - k + 1 ELSE 1, Len(seq))

\* C13: the initial message list of process_with_context is the stored prior
\* messages of the session inside the window of five (the four latest ones
\* besides the query just saved), oldest first, followed by exactly one user
\* message with the new query; the query just saved is not among the seeded
\* prior messages and no other message of the window is left out.
C13_SeedIsPriorWindowThenQuery ==
    \A p \in Procs :
        (last_step[p].op = "build" /\ pc[p] = "list_tools") =>
            LET window == Latest(PriorRows(p), 4)
            IN messages[p] =
                 [i \in 1..Len(window) |->
                     [role |-> window[i].role,
                      content |-> << TextBlock(window[i].content) >>]]
                 \o << UserTextMessage(query[p]) >>

\* C14: right after a completion-service call that returned, and before any
\* tool of the turn is dispatched, the last message of the list is an
\* assistant message whose content is the service's output: every block, in
\* order, nothing lost.
C14_AssistantMessageKeepsEveryBlock ==
    \A p \in Procs :
        (last_step[p].op = "completion" /\ ~last_step[p].api_fault)
        => /\ replies[p] # <<>>
           /\ messages[p] # <<>>
           /\ messages[p][Len(messages[p])].role = "assistant"
           /\ messages[p][Len(messages[p])].content = replies[p][Len(replies[p])]
           /\ tool_results_blocks[p] = <<>>
           /\ Len(dispatched[p])
                = Len(ToolUseIds(SubSeq(replies[p], 1, Len(replies[p]) - 1)))

\* C15: a final answer that has been returned is made of the text blocks of
\* the last reply alone, which has no tool-use block: their texts joined by
\* newlines with the white space at both ends removed, and the fixed
\* placeholder when that reply has no text block.
C15_FinalAnswerFromLastReply ==
    \A p \in Procs :
        (pc[p] = "done" /\ result[p].kind = "final")
        => /\ replies[p] # <<>>
           /\ LET last == replies[p][Len(replies[p])]
                  texts == TextsOf(last)
              IN /\ ToolUsesOf(last) = <<>>
                 /\ texts = <<>> => result[p].text = TextOf(NoResponse(variant[p]))
                 /\ texts # <<>> =>
                       /\ result[p].text = TextOf(Strip(Join(<<"\n">>, texts)))
                       /\ result[p].text.src = <<>>
                            \/ /\ Head(result[p].text.src) \notin Whitespace
                               /\ result[p].text.src[result[p].text.len] \notin Whitespace

\* After a reply that held a text block and tool uses, the last reply held
\* another text, and that text alone has been returned.
C15_Witness ==
    \E p \in Procs :
        /\ pc[p] = "done" /\ result[p].kind = "final"
        /\ Len(replies[p]) = 2
        /\ ToolUsesOf(replies[p][1]) # <<>>
        /\ TextsOf(replies[p][1]) = << <<"c">> >>
        /\ result[p].text = TextOf(<<"a">>)

\* C17: in process_with_context, right after the dispatch of a tool-use
\* block, the store holds one tool-call record per block dispatched so far,
\* and the newest carries the session id, the tool's name and input, an
\* output text, and the status "success" if the tool-server call returned,
\* "error" if it raised.
C17_OneRecordPerDispatch ==
    \A p \in Procs :
        (variant[p] = "context" /\ last_step[p].op = "dispatch")
        => /\ Len(db_tool_calls) = Len(dispatched[p])
           /\ LET id == dispatched[p][Len(dispatched[p])]
                  tu == tool_uses[p][id[3]]
                  row == db_tool_calls[Len(db_tool_calls)]
              IN /\ tu.id = id
                 /\ row.session_id = session_id[p]
                 /\ row.tool_name = tu.name
                 /\ row.input_params = tu.input
                 /\ row.status = IF last_step[p].tool_fault THEN "error" ELSE "success"

\* C16: in the step in which a process_with_context invocation returns its
\* final answer, one row is added to the messages table: an assistant
\* message of the invocation's session whose text is the returned string;
\* it is the only assistant message the invocation writes.
C16_FinalAnswerPersisted ==
    [][\A p \in Procs :
         (variant[p] = "context" /\ pc[p] # "done" /\ pc'[p] = "done"
             /\ result'[p].kind = "final")
         => /\ Len(db_messages') = Len(db_messages) + 1
            /\ SubSeq(db_messages', 1, Len(db_messages)) = db_messages
            /\ LET row == db_messages'[Len(db_messages')]
               IN /\ row.session_id = session_id[p]
                  /\ row.role = "assistant"
                  /\ TextOf(row.content) = result'[p].text
            /\ persisted'[p] = Append(persisted[p], "assistant")
            /\ "assistant" \notin Range(persisted[p])]_vars

\* An answer joined from two text blocks has been returned and is the text
\* of the newest stored message.
C16_Witness ==
    \E p \in Procs :
        /\ variant[p] = "context" /\ pc[p] = "done" /\ result[p].kind = "final"
        /\ result[p].text = TextOf(<<"a", "\n", "b">>)
        /\ db_messages # <<>>
        /\ db_messages[Len(db_messages)].role = "assistant"
        /\ db_messages[Len(db_messages)].content = <<"a", "\n", "b">>

\* C20: provided every call it waits on returns or faults, an invocation
\* that has begun ends by returning a string: the final answer, a fault
\* string or the exhaustion message.
C20_EveryInvocationReturnsAString ==
    \A p \in Procs :
        (pc[p] # "idle")
        ~> (/\ pc[p] = "done"
            /\ result[p].exit = "return"
            /\ result[p].kind \in {"final", "error", "exhausted"})

\* C19: every inbound user turn with a text that is not empty, handled by
\* handle_mention or handle_message, is answered with at least one posted
\* message, whatever fault occurs in create_session_id, upsert_session,
\* process_with_context or the store (Slack itself not faulting): the handler
\* is never left with nothing posted.
C19_UserTurnIsAnswered ==
    (/\ hpc = "ended"
     /\ event.text # <<>>
     /\ ~event.bot_id.some
     /\ "slack" \notin hfaults)
        => posted # <<>>

-----------------------------------------------------------------------------
(* Properties of the tool offers, of dispatching and of the store *)

\* The offers built from the descriptors fetched, with `absent` the schemas
\* that count as absent
OffersMatch(p, absent) ==
    /\ Len(tools[p]) = Len(catalog[p])
    /\ \A i \in 1..Len(catalog[p]) :
         /\ tools[p][i].name = catalog[p][i].name
         /\ tools[p][i].input_schema =
               IF catalog[p][i].inputSchema \in absent
               THEN PermissiveSchema
               ELSE catalog[p][i].inputSchema

\* C21 (as claimed): _anthropic_tools_from_mcp gives one offer per descriptor,
\* in order and under the descriptor's name; the offer's input schema is the
\* descriptor's own schema whenever the descriptor has one, and the permissive
\* default only when the descriptor has none (None).
C21_OffersKeepOwnSchema ==
    \A p \in Procs : OffersMatch(p, {NoSchema})

\* C21 (amended): _anthropic_tools_from_mcp gives one offer per descriptor, in
\* order and under the descriptor's name; the offer's input schema is the
\* descriptor's own schema when that is a schema with at least one key, and
\* the permissive default when the descriptor's schema is None or is the
\* empty schema {}.
C21_OffersKeepNonEmptySchema ==
    \A p \in Procs : OffersMatch(p, {NoSchema, EmptySchema})

C21_Witness ==
    \E p \in Procs :
        /\ Len(tools[p]) = 2
        /\ catalog[p][1].inputSchema = EmptySchema
        /\ tools[p][1].input_schema = PermissiveSchema
        /\ tools[p][2].input_schema = Schema("command")

\* The ids of the tool-use blocks the completion service emitted, reply by
\* reply and block by block
RECURSIVE EmittedIds(_)
EmittedIds(rs) ==
    IF rs = <<>> THEN <<>>
    ELSE LET IsUse(b) == b.type = "tool_use"
             uses == SelectSeq(Head(rs), IsUse)
         IN [k \in 1..Len(uses) |-> uses[k].id] \o EmittedIds(Tail(rs))

AllButLast(seq) == SubSeq(seq, 1, Len(seq) - 1)

\* C22: the tool-use blocks are dispatched one at a time in the order the
\* completion service emitted them: the calls made so far are always the
\* first ones emitted, in that order; a step starts at most one call, and
\* only when every call of the turn started before it has its result; the
\* next completion call is made only when every emitted block has been
\* dispatched and the message list ends with the results of the whole turn.
C22_DispatchInEmittedOrder ==
    /\ [](\A p \in Procs :
            /\ Len(dispatched[p]) <= Len(EmittedIds(replies[p]))
            /\ dispatched[p] =
                 SubSeq(EmittedIds(replies[p]), 1, Len(dispatched[p])))
    /\ [][\A p \in Procs :
            /\ dispatched'[p] # dispatched[p] =>
                 /\ Len(dispatched'[p]) = Len(dispatched[p]) + 1
                 /\ Len(tool_results_blocks[p]) =
                      Len(dispatched[p]) - Len(EmittedIds(AllButLast(replies[p])))
            /\ (calls'[p] # calls[p] /\ replies[p] # <<>>) =>
                 /\ dispatched[p] = EmittedIds(replies[p])
                 /\ messages[p][Len(messages[p])].role = "user"
                 /\ Len(messages[p][Len(messages[p])].content) =
                      Len(EmittedIds(<< replies[p][Len(replies[p])] >>))
       ]_vars

C22_Witness ==
    \E p \in Procs :
        /\ Len(replies[p]) = 1
        /\ Len(EmittedIds(replies[p])) = 2
        /\ dispatched[p] = EmittedIds(replies[p])
        /\ calls[p] = 2

\* C23: a command that begins with "cd " is handled without any subprocess:
\* run_command returns at once and nothing is handed to
\* create_subprocess_exec, whether or not the target exists; every other
\* command is handed to create_subprocess_exec once, under the resolved
\* working directory.
C23_CdIsNoSubprocess ==
    \A c \in Clients :
        term[c].pc \in {"running", "returned"} =>
            IF StartsWithCd(term[c].command)
            THEN term[c].pc = "returned" /\ term[c].exec_calls = <<>>
            ELSE /\ Len(term[c].exec_calls) = 1
                 /\ term[c].exec_calls[1].cwd = term[c].working_dir

\* The command with its first token replaced by `native` and every other
\* character kept
WithFirstToken(command, native) ==
    LET rest == LStrip(command)
        lead == SubSeq(command, 1, Len(command) - Len(rest))
        token == SplitWs(command, <<>>, <<>>)[1]
    IN lead \o native \o SubSeq(rest, Len(token) + 1, Len(rest))

\* C24: the command string handed to the shell is the caller's command string
\* on a platform other than Windows; on Windows it is the caller's string
\* with only the first token replaced, when command_map has it, and the
\* arguments as the caller wrote them.
C24_CommandHandedToShell ==
    \A c \in Clients :
        term[c].exec_calls # <<>> =>
            LET handed == term[c].exec_calls[1].argv[3]
                parts == SplitWs(term[c].command, <<>>, <<>>)
            IN IF system = "Windows" /\ parts # <<>> /\ command_map(parts[1]).some
               THEN handed = WithFirstToken(term[c].command, command_map(parts[1]).val)
               ELSE handed = term[c].command

\* offers is the list of offers that belongs to the descriptors cat
IsOfferListOf(offers, cat) ==
    /\ Len(offers) = Len(cat)
    /\ \A i \in 1..Len(cat) :
         /\ offers[i].name = cat[i].name
         /\ offers[i].input_schema =
               IF cat[i].inputSchema \in {NoSchema, EmptySchema}
               THEN PermissiveSchema ELSE cat[i].inputSchema

\* C25: an invocation fetches the tool catalog itself, once and before its
\* first completion call, and every completion call it makes offers the
\* catalog this invocation fetched, whatever another invocation fetched
\* before.
C25_OffersAreOfOwnCatalog ==
    [][\A p \in DOMAIN pc :
          /\ catalog'[p] # catalog[p] =>
                pc[p] = "list_tools" /\ calls[p] = 0 /\ catalog[p] = <<>>
          /\ calls'[p] # calls[p] =>
                /\ catalog[p] # <<>>
                /\ catalog'[p] = catalog[p]
                /\ IsOfferListOf(offered'[p], catalog[p])
      ]_vars

C25_Witness ==
    /\ calls["t1"] = 2 /\ calls["t2"] = 2
    /\ catalog["t1"] # catalog["t2"]
    /\ Len(offered["t1"]) # Len(offered["t2"])

IsPrefix(a, b) == Len(a) <= Len(b) /\ a = SubSeq(b, 1, Len(a))

RowsWithId(db, sid) == { i \in 1..Len(db) : db[i].session_id = sid }

\* C26: the store never holds two session rows of one session id; a session
\* id that has a row keeps exactly one row whatever the handlers and the
\* orchestrator do next, and the id just upserted has exactly one; the
\* message rows and the tool-call rows are only ever added to.
C26_StoreOnlyGrows ==
    /\ [](\A i, j \in 1..Len(db_sessions) :
             db_sessions[i].session_id = db_sessions[j].session_id => i = j)
    /\ [][/\ \A i \in 1..Len(db_sessions) :
                Cardinality(RowsWithId(db_sessions', db_sessions[i].session_id)) = 1
          /\ (hpc = "session" /\ hpc' = "await") =>
                Cardinality(RowsWithId(db_sessions', session_id'[HandlerProc])) = 1
          /\ IsPrefix(db_messages, db_messages')
          /\ IsPrefix(db_tool_calls, db_tool_calls')
       ]_vars

C26_Witness ==
    /\ hpc = "ended"
    /\ pc[HandlerProc] = "done"
    /\ Len(db_sessions) = 2
    /\ db_sessions[1].updated_at = 0
    /\ db_sessions[2].session_id = session_id[HandlerProc]
    /\ db_sessions[2].updated_at = now
    /\ Len(db_messages) = 2
    /\ db_tool_calls # <<>>

\* The message is a text stored in the messages table under session sid
IsStoredTextOf(msg, sid) ==
    /\ Len(msg.content) = 1
    /\ msg.content[1].type = "text"
    /\ \E i \in 1..Len(db_messages) :
          /\ db_messages[i].session_id = sid
          /\ db_messages[i].role = msg.role
          /\ db_messages[i].content = msg.content[1].text

\* The message is a reply that task p received, as the loop appends it
IsReplyTo(msg, p) ==
    /\ msg.role = "assistant"
    /\ \E j \in 1..Len(replies[p]) : msg = AssistantMessage(replies[p][j])

\* The message holds results of tool calls that task p dispatched
IsResultsOf(msg, p) ==
    /\ msg.role = "user"
    /\ msg.content # <<>>
    /\ \A k \in 1..Len(msg.content) :
          /\ msg.content[k].type = "tool_result"
          /\ \E d \in 1..Len(dispatched[p]) :
                dispatched[p][d] = msg.content[k].tool_use_id

\* C27: with invocations of process_with_context for different sessions
\* interleaved, every message in the list of an invocation is a text stored
\* under its own session id, a reply the invocation itself received, or the
\* results of tool calls the invocation itself dispatched; no text stored
\* under the other session and no block of the other invocation is in it.
C27_MessagesOfOwnSessionOnly ==
    \A p \in DOMAIN pc :
        \A i \in 1..Len(messages[p]) :
            \/ IsStoredTextOf(messages[p][i], session_id[p])
            \/ IsReplyTo(messages[p][i], p)
            \/ IsResultsOf(messages[p][i], p)

C27_Witness ==
    /\ calls["t1"] = 2 /\ calls["t2"] = 2
    /\ Len(messages["t1"]) = 5
    /\ Len(messages["t2"]) = 5
    /\ \E i, j \in 1..Len(db_messages) :
          /\ i < j
          /\ db_messages[i].content = query["t2"]
          /\ db_messages[j].content = query["t1"]
    /\ db_tool_calls # <<>>

\* The rows of the messages table that hold the query of task p
QueryRows(p) ==
    { i \in 1..Len(db_messages) :
        /\ db_messages[i].session_id = session_id[p]
        /\ db_messages[i].role = "user"
        /\ db_messages[i].content = query[p] }

Count(seq, x) == Cardinality({ i \in 1..Len(seq) : seq[i] = x })

\* C28: process_with_context stores the user's query as exactly one user
\* message before its first completion call, and the row stays whatever the
\* outcome; the invocation stores at most one assistant message, and none
\* when it ends in a completion fault or in turn exhaustion (the stored
\* history of the session may then hold two user messages in a row).
C28_QueryStoredOnceAnswerAtMostOnce ==
    \A p \in Procs :
        variant[p] = "context" =>
            /\ Count(persisted[p], "user") <= 1
            /\ Count(persisted[p], "assistant") <= 1
            /\ calls[p] >= 1 =>
                  persisted[p] # <<>> /\ persisted[p][1] = "user"
            /\ Count(persisted[p], "user") = 1 => Cardinality(QueryRows(p)) = 1
            /\ (pc[p] = "done"
                  /\ (last_step[p].api_fault \/ result[p].kind = "exhausted"))
               => /\ persisted[p] = <<"user">>
                  /\ db_messages[Len(db_messages)].role = "user"
                  /\ QueryRows(p) = {Len(db_messages)}

\* An invocation that ended in turn exhaustion, after one that had stored its
\* query alone: the session's last two rows are user messages.
C28_Witness ==
    \E p \in Procs :
        /\ pc[p] = "done"
        /\ result[p].kind = "exhausted"
        /\ Len(db_messages) >= 2
        /\ db_messages[Len(db_messages) - 1].role = "user"
        /\ db_messages[Len(db_messages) - 1].session_id = session_id[p]
        /\ db_messages[Len(db_messages)].role = "user"
        /\ db_messages[Len(db_messages)].content = query[p]

\* The positions of the tool-result messages in a message list
ToolRounds(msgs) ==
    { i \in 1..Len(msgs) :
        /\ msgs[i].role = "user"
        /\ msgs[i].content # <<>>
        /\ msgs[i].content[1].type = "tool_result" }

\* C29: an invocation that returned the exhaustion message made exactly
\* MAX_TURNS completion calls, each answered with a request for tools, and
\* ran exactly MAX_TURNS tool rounds; its message list ends with the user
\* message of the last round's results, appended after the last completion
\* call and so never sent.
C29_ExhaustionAfterFullLastRound ==
    \A p \in Procs :
        result[p].kind = "exhausted" =>
            LET budget == IF variant[p] = "context" THEN MaxTurnsContext
                          ELSE MaxTurnsQuery
                last == messages[p][Len(messages[p])]
            IN /\ calls[p] = budget
               /\ Len(replies[p]) = budget
               /\ Cardinality(ToolRounds(messages[p])) = budget
               /\ Len(dispatched[p]) = Len(EmittedIds(replies[p]))
               /\ Len(messages[p]) \in ToolRounds(messages[p])
               /\ messages[p][Len(messages[p]) - 1]
                     = AssistantMessage(replies[p][budget])
               /\ Len(last.content) = Len(EmittedIds(<< replies[p][budget] >>))
               /\ \A k \in 1..Len(last.content) :
                     last.content[k].tool_use_id
                        = EmittedIds(<< replies[p][budget] >>)[k]

C29_Witness ==
    \E p \in Procs :
        /\ result[p].kind = "exhausted"
        /\ variant[p] = "context"
        /\ Len(dispatched[p]) = MaxTurnsContext + 1
        /\ Len(db_tool_calls) = MaxTurnsContext + 1

\* C30: in process_with_context, right after the dispatch of a tool-use
\* block whose tool-server call returned, the block has a result that is not
\* the error text and the newest tool-call record has the status "success",
\* also when a write to the store failed; the error text and the status
\* "error" come with faults of the tool-server call only.
C30_ErrorOnlyWhenToolCallFaulted ==
    \A p \in Procs :
        (/\ variant[p] = "context"
         /\ last_step[p].op = "dispatch"
         /\ ~last_step[p].tool_fault)
        => /\ pc[p] \in {"tools", "loop"}
           /\ tool_results_blocks[p] # <<>>
           /\ LET b == tool_results_blocks[p][Len(tool_results_blocks[p])]
              IN /\ b.tool_use_id = dispatched[p][Len(dispatched[p])]
                 /\ SubSeq(b.content[1].text.src, 1, 1) # <<"Error executing tool '">>
           /\ db_tool_calls # <<>>
           /\ db_tool_calls[Len(db_tool_calls)].status = "success"

\* C31: the process-wide current_directory is an absolute path in every
\* state of the terminal server, and in every step that gives it a new value
\* that value is an existing directory of the file system of that step.
C31_CurrentDirectoryExists ==
    [][/\ IsAbs(current_directory')
       /\ current_directory' # current_directory
          => PathIsDir(dirs, current_directory')]_vars

\* A client's "cd /t/l/../s" has returned 0 while the link's target /w/s
\* existed and /t/s did not, and current_directory is now /t/s.
C31_DanglingCommit ==
    \E c \in Clients :
        /\ term[c].pc = "returned"
        /\ StartsWithCd(term[c].command)
        /\ term[c].result.return_code = 0
        /\ current_directory = term[c].result.new_cwd
        /\ current_directory = <<"/", "t", "/", "s">>
        /\ ~PathExists(dirs, current_directory)

\* The two tasks that are compared: one runs process_query, the other
\* process_with_context on a store without history.
QueryTask == "t1"
ContextTask == "t2"

\* A content block with the task's name left out of its correlation id: the
\* same block of the completion service as another task is fed it
Unlabelled(b) ==
    IF "id" \in DOMAIN b THEN [b EXCEPT !.id = <<@[2], @[3]>>]
    ELSE IF "tool_use_id" \in DOMAIN b THEN [b EXCEPT !.tool_use_id = <<@[2], @[3]>>]
    ELSE b
UnlabelledContent(content) ==
    [i \in 1..Len(content) |-> Unlabelled(content[i])]
UnlabelledReplies(rs) == [i \in 1..Len(rs) |-> UnlabelledContent(rs[i])]
UnlabelledMessages(msgs) ==
    [i \in 1..Len(msgs) |->
        [role |-> msgs[i].role, content |-> UnlabelledContent(msgs[i].content)]]
UnlabelledIds(ids) == [i \in 1..Len(ids) |-> <<ids[i][2], ids[i][3]>>]

\* Both tasks have been given the same catalog, the same replies, the same
\* number of completion calls (so the same completion faults) and the same
\* tool-server outcomes, and are within the smaller turn bound.
SameInputs(q, c) ==
    /\ catalog[q] # <<>> /\ catalog[q] = catalog[c]
    /\ calls[q] = calls[c]
    /\ UnlabelledReplies(replies[q]) = UnlabelledReplies(replies[c])
    /\ outcomes[q] = outcomes[c]
    /\ turn[q] < MAX_TURNS("context") /\ turn[c] < MAX_TURNS("context")

\* Where the task stands after the inputs it has consumed: the kind of its
\* terminal state, "final" also while the return of the answer is the one
\* step left, "running" otherwise.
Standing(p) ==
    IF pc[p] = "done" THEN result[p].kind
    ELSE IF pc[p] = "final" THEN "final"
    ELSE "running"

\* C32: whenever process_query and process_with_context, started without
\* stored history on the same query, have been fed the same catalog, the same
\* completion replies and faults and the same tool-server outcomes within the
\* smaller turn bound, they have built the same message list, dispatched the
\* same tool-use blocks in the same order and stand at the same kind of
\* terminal state or are both still running.
C32_VariantsAgree ==
    SameInputs(QueryTask, ContextTask)
    => /\ UnlabelledMessages(messages[QueryTask])
          = UnlabelledMessages(messages[ContextTask])
       /\ UnlabelledIds(dispatched[QueryTask]) = UnlabelledIds(dispatched[ContextTask])
       /\ Standing(QueryTask) = Standing(ContextTask)

-----------------------------------------------------------------------------
(* Specifications *)

Init == InitOrch /\ InitStore /\ InitTerm /\ InitSid /\ InitSlack

Next ==
    \E p \in Procs :
        \/ Invoke(p)
        \/ BuildContext(p)
        \/ ListTools(p)
        \/ CallCompletion(p)
        \/ DispatchTool(p)
        \/ Finish(p)
        \/ Exhaust(p)

Spec == Init /\ [][Next]_vars

\* Every call an invocation is waiting on returns or faults in the end, so an
\* invocation that has begun keeps taking its steps.
Progress ==
    \E p \in Procs :
        \/ BuildContext(p)
        \/ ListTools(p)
        \/ CallCompletion(p)
        \/ DispatchTool(p)
        \/ Finish(p)
        \/ Exhaust(p)

SpecLive == Spec /\ WF_vars(Progress)

NextTerminal ==
    \E c \in Clients : TermInvoke(c) \/ TermComplete(c) \/ TermReturn(c)

SpecTerminal == Init /\ [][NextTerminal]_vars

\* The terminal tool server on any of the platforms
InitShell ==
    /\ InitOrch /\ InitStore /\ InitSid /\ InitSlack
    /\ current_directory = GetCwd
    /\ dirs = PermanentDirs \cup VolatileDirs
    /\ term = [c \in Clients |-> IdleTerm]
    /\ last_cd = [c \in Clients |-> Absent]
    /\ system \in Systems

SpecShell == InitShell /\ [][NextTerminal]_vars

\* The messages table as earlier invocations of one session have left it.
\* Each stored its query and then, in the same second or in the next, its
\* answer, or its query alone (it ended in a fault or in turn exhaustion);
\* each began in a later second than the one before had ended in.
StoredOutcomes == {"query_only", "same_second", "next_second"}
Digits == <<"1", "2", "3", "4", "5", "6", "7", "8", "9">>
StoreInvocation(h, outcome) ==
    LET n == h.n + 1
        t == h.at + 1
        u == MessageRow("s1", "user", <<"q", Digits[n]>>, t)
        a(at) == MessageRow("s1", "assistant", <<"a", Digits[n]>>, at)
    IN CASE outcome = "query_only" ->
              [n |-> n, at |-> t, db |-> Append(h.db, u)]
         [] outcome = "same_second" ->
              [n |-> n, at |-> t, db |-> h.db \o <<u, a(t)>>]
         [] outcome = "next_second" ->
              [n |-> n, at |-> t + 1, db |-> h.db \o <<u, a(t + 1)>>]

RECURSIVE StoredAfter(_)
StoredAfter(n) ==
    IF n = 0 THEN { [n |-> 0, at |-> 0, db |-> <<>>] }
    ELSE { StoreInvocation(h, o) : h \in StoredAfter(n - 1), o \in StoredOutcomes }

StoredHistories == UNION { StoredAfter(n) : n \in 0..MaxStored }

\* The store holds the history of earlier invocations; the next invocation
\* begins in the second the last one ended in, or in a later one.
InitHistory ==
    /\ InitOrch /\ InitTerm /\ InitSid /\ InitSlack
    /\ db_tool_calls = <<>>
    /\ db_sessions = <<>>
    /\ \E h \in StoredHistories :
          /\ db_messages = h.db
          /\ now \in {h.at, h.at + 1} \ {0}

SpecHistory == InitHistory /\ [][Next]_vars

NextHandler ==
    \/ HandleMention
    \/ GetBotId
    \/ PostGreeting
    \/ HandleMessage
    \/ OpenSession
    \/ PostResponse
    \/ PostApology
    \/ BuildContext(HandlerProc)
    \/ ListTools(HandlerProc)
    \/ CallCompletion(HandlerProc)
    \/ DispatchTool(HandlerProc)
    \/ Finish(HandlerProc)
    \/ Exhaust(HandlerProc)

\* The chat_sessions table as earlier turns have left it
StoredSessions ==
    LET mention == SessionRow(create_session_id(<<"C">>, <<"U">>, Some(<<"1">>)),
                              <<"C">>, <<"U">>, Some(<<"1">>), 0)
        direct == SessionRow(create_session_id(<<"D">>, <<"U">>, Absent),
                             <<"D">>, <<"U">>, Absent, 0)
    IN { <<>>, <<mention>>, <<mention, direct>> }

InitHandler ==
    /\ InitOrch /\ InitTerm /\ InitSid /\ InitSlack
    /\ db_messages = <<>>
    /\ db_tool_calls = <<>>
    /\ db_sessions \in StoredSessions
    /\ now = 1

SpecHandler == InitHandler /\ [][NextHandler]_vars

\* Two invocations of process_with_context, one for each of two sessions,
\* interleaved at their suspension points, over a store that holds an earlier
\* exchange of each session.
PairProcs == {"t1", "t2"}
SessionOf(p) == IF p = "t1" THEN "s1" ELSE "s2"
QueryOf(p) == IF p = "t1" THEN <<"q">> ELSE <<"r">>

PairStore ==
    << MessageRow("s1", "user", <<"q", "1">>, 1),
       MessageRow("s2", "user", <<"r", "1">>, 2),
       MessageRow("s1", "assistant", <<"a", "1">>, 3),
       MessageRow("s2", "assistant", <<"b", "1">>, 4) >>

InitPair ==
    /\ InitOrchOn(PairProcs) /\ InitTerm /\ InitSid /\ InitSlack
    /\ db_messages = PairStore
    /\ db_tool_calls = <<>>
    /\ db_sessions = <<>>
    /\ now = 5

PairInvoke(p) ==
    /\ pc[p] = "idle"
    /\ variant' = [variant EXCEPT ![p] = "context"]
    /\ session_id' = [session_id EXCEPT ![p] = SessionOf(p)]
    /\ query' = [query EXCEPT ![p] = QueryOf(p)]
    /\ pc' = [pc EXCEPT ![p] = "save_query"]
    /\ last_step' = [last_step EXCEPT ![p] = StepOf("invoke", FALSE, FALSE, FALSE)]
    /\ UNCHANGED <<messages, tools, catalog, turn, assistant_content, tool_uses,
                   tu_index, tool_results_blocks, result, calls, offered,
                   dispatched, replies, outcomes,
                   persisted>>
    /\ UNCHANGED <<storeVars, termVars, sidVars, slackVars>>

NextPair ==
    \E p \in PairProcs :
        \/ PairInvoke(p)
        \/ BuildContext(p)
        \/ ListTools(p)
        \/ CallCompletion(p)
        \/ DispatchTool(p)
        \/ Finish(p)
        \/ Exhaust(p)

SpecPair == InitPair /\ [][NextPair]_vars

\* process_query and process_with_context side by side: the same query, an
\* empty store, each task fed by the collaborators on its own.
InitTwin ==
    InitOrchOn({QueryTask, ContextTask}) /\ InitStore /\ InitTerm /\ InitSid /\ InitSlack

TwinInvoke(p) ==
    /\ pc[p] = "idle"
    /\ variant' = [variant EXCEPT ![p] = IF p = QueryTask THEN "query" ELSE "context"]
    /\ session_id' = [session_id EXCEPT ![p] = IF p = QueryTask THEN None ELSE "s1"]
    /\ query' = [query EXCEPT ![p] = <<"q">>]
    /\ pc' = [pc EXCEPT ![p] = IF p = QueryTask THEN "list_tools" ELSE "save_query"]
    /\ last_step' = [last_step EXCEPT ![p] = StepOf("invoke", FALSE, FALSE, FALSE)]
    /\ UNCHANGED <<messages, tools, catalog, turn, assistant_content, tool_uses,
                   tu_index, tool_results_blocks, result, calls, offered,
                   dispatched, replies, outcomes, persisted>>
    /\ UNCHANGED <<storeVars, termVars, sidVars, slackVars>>

NextTwin ==
    \E p \in {QueryTask, ContextTask} :
        \/ TwinInvoke(p)
        \/ BuildContext(p)
        \/ ListTools(p)
        \/ CallCompletion(p)
        \/ DispatchTool(p)
        \/ Finish(p)
        \/ Exhaust(p)

SpecTwin == InitTwin /\ [][NextTwin]_vars

InitSession == InitOrch /\ InitStore /\ InitTerm /\ InitSidPairs /\ InitSlack

SpecSession == InitSession /\ [][CreateSessionIds]_vars

====
